---- MODULE Spec2Model ----
(***************************************************************************)
(* CodeSpark: provider abstraction (ai_service.py), legacy single-backend  *)
(* wrapper (openai_service.py) and credential vault (routes.py).           *)
(*                                                                         *)
(* Python values are modelled as follows.  A dict is a function over its   *)
(* keys.  The result of a call is a record [tag |-> "return", value |-> v] *)
(* or [tag |-> "raise", exc |-> e]; an exception e is a record             *)
(* [type, msg, attrs] where msg is str(e) and attrs are the attributes the *)
(* exception object carries.  An outbound call is answered by the backend  *)
(* with a reply chosen nondeterministically from a bounded set.            *)
(***************************************************************************)
EXTENDS Integers, Sequences, FiniteSets, TLC

VARIABLES
    installed,   \* SDK packages whose import succeeded (ai_service.py:10-23)
    environ,     \* os.environ of the process (fixed at process start)
    provider,    \* adapter last returned by create_ai_provider, or NoProvider
    sent,        \* outbound calls issued by the last handler, in order
    last,        \* the last handler run: [op, arg, reply, out]
    keygen,      \* number of Fernet.generate_key() calls made so far
    stored,      \* the blob held in UserSettings.api_keys (None when unset)
    origin,      \* how `stored` came about: [mapping, key, same_process]
    vault,       \* the last vault call: [op, arg, key, out]
    db,          \* the database: [settings, analyses, metrics]
    browser,     \* each client's Flask session cookie: its session_id or None
    minted,      \* number of secrets.token_urlsafe() tokens drawn so far
    pending,     \* requests in flight, by worker
    catalog,     \* the module-level dict AI_PROVIDERS as it is now
    files        \* paths of the files in the upload folder

vars == <<installed, environ, provider, sent, last, keygen, stored, origin, vault, db, browser, minted, pending, catalog, files>>

coreVars == <<installed, provider, sent, last>>

vaultVars == <<keygen, stored, origin, vault>>

routeVars == <<db, browser, minted, pending, catalog, files>>

-----------------------------------------------------------------------------
(* Python values *)

None == "None"

EmptyDict == [k \in {} |-> ""]

Return(v) == [tag |-> "return", value |-> v]

Raise(e) == [tag |-> "raise", exc |-> e]

Exc(type, msg, attrs) == [type |-> type, msg |-> msg, attrs |-> attrs]

\* dict.get(key, default)
Get(d, key, default) == IF key \in DOMAIN d THEN d[key] ELSE default

\* Python truthiness of a str-or-None value
Truthy(s) == s # None /\ s # ""

\* `value is None` for a value of any type
IsNone(value) == ToString(value) = ToString(None)

-----------------------------------------------------------------------------
(* ai_service.py: provider catalog *)

AI_PROVIDERS ==
    [ openai |->
        [ name |-> "OpenAI",
          models |-> << "gpt-4o", "gpt-4o-mini", "gpt-4-turbo",
                        "gpt-4-turbo-preview", "gpt-4", "gpt-4-0613",
                        "gpt-3.5-turbo", "gpt-3.5-turbo-16k",
                        "gpt-3.5-turbo-1106" >>,
          api_key_env |-> "OPENAI_API_KEY",
          requires |-> {"openai"} ],
      anthropic |->
        [ name |-> "Anthropic Claude",
          models |-> << "claude-sonnet-4-20250514", "claude-3-7-sonnet-20250219",
                        "claude-3-5-sonnet-20241022", "claude-3-5-haiku-20241022",
                        "claude-3-opus-20240229", "claude-3-sonnet-20240229",
                        "claude-3-haiku-20240307", "claude-2.1", "claude-2.0",
                        "claude-instant-1.2" >>,
          api_key_env |-> "ANTHROPIC_API_KEY",
          requires |-> {"anthropic"} ],
      gemini |->
        [ name |-> "Google Gemini",
          models |-> << "gemini-2.5-pro", "gemini-2.5-flash", "gemini-1.5-pro",
                        "gemini-1.5-flash", "gemini-1.0-pro", "gemini-pro",
                        "gemini-pro-vision" >>,
          api_key_env |-> "GEMINI_API_KEY",
          requires |-> {"google-genai"} ],
      xai |->
        [ name |-> "xAI Grok",
          models |-> << "grok-2-vision-1212", "grok-2-1212", "grok-vision-beta",
                        "grok-beta", "grok-1" >>,
          api_key_env |-> "XAI_API_KEY",
          requires |-> {"openai"} ],
      perplexity |->
        [ name |-> "Perplexity",
          models |-> << "llama-3.1-sonar-huge-128k-online",
                        "llama-3.1-sonar-large-128k-online",
                        "llama-3.1-sonar-small-128k-online",
                        "llama-3.1-sonar-large-128k-chat",
                        "llama-3.1-sonar-small-128k-chat",
                        "llama-3.1-8b-instruct", "llama-3.1-70b-instruct",
                        "codellama-34b-instruct", "codellama-70b-instruct",
                        "mistral-7b-instruct", "mixtral-8x7b-instruct" >>,
          api_key_env |-> "PERPLEXITY_API_KEY",
          requires |-> {"requests"} ],
      cohere |->
        [ name |-> "Cohere",
          models |-> << "command-r-plus", "command-r", "command",
                        "command-nightly", "command-light",
                        "command-light-nightly" >>,
          api_key_env |-> "COHERE_API_KEY",
          requires |-> {"requests"} ],
      mistral |->
        [ name |-> "Mistral AI",
          models |-> << "mistral-large-latest", "mistral-medium-latest",
                        "mistral-small-latest", "open-mistral-7b",
                        "open-mixtral-8x7b", "open-mixtral-8x22b",
                        "codestral-latest", "mistral-embed" >>,
          api_key_env |-> "MISTRAL_API_KEY",
          requires |-> {"requests"} ],
      huggingface |->
        [ name |-> "HuggingFace",
          models |-> << "meta-llama/Llama-2-70b-chat-hf",
                        "meta-llama/Llama-2-13b-chat-hf",
                        "meta-llama/Llama-2-7b-chat-hf",
                        "codellama/CodeLlama-34b-Instruct-hf",
                        "microsoft/DialoGPT-large", "microsoft/CodeBERT-base",
                        "Salesforce/codegen-16B-mono", "bigcode/starcoder" >>,
          api_key_env |-> "HUGGINGFACE_API_KEY",
          requires |-> {"requests"} ],
      together |->
        [ name |-> "Together AI",
          models |-> << "meta-llama/Llama-2-70b-chat-hf",
                        "meta-llama/Llama-2-13b-chat-hf",
                        "meta-llama/Llama-2-7b-chat-hf",
                        "codellama/CodeLlama-34b-Instruct-hf",
                        "codellama/CodeLlama-13b-Instruct-hf",
                        "codellama/CodeLlama-7b-Instruct-hf",
                        "WizardLM/WizardCoder-Python-34B-V1.0",
                        "Phind/Phind-CodeLlama-34B-v2" >>,
          api_key_env |-> "TOGETHER_API_KEY",
          requires |-> {"requests"} ] ]

get_available_providers == AI_PROVIDERS

\* The three optional SDK imports guarded by try/except ImportError.
OptionalSDKs == {"openai", "anthropic", "google-genai"}

-----------------------------------------------------------------------------
(* json.loads *)

QualityJson == "{\"quality_score\": 85, \"issues\": [], \"metrics\": {\"maintainability\": 80, \"readability\": 75, \"security\": 90}}"

\* Valid JSON in the report's shape whose numbers leave the 0-100 scale
OutOfRangeJson == "{\"quality_score\": 150, \"issues\": [], \"metrics\": {\"maintainability\": 80, \"readability\": 75, \"security\": -5}}"

\* Valid JSON in the report's shape whose metrics member is null
NullMetricsJson == "{\"quality_score\": 85, \"issues\": [], \"metrics\": null}"

EmptyObjectJson == "{}"

ProseText == "Sure! Here is the analysis."

TruncatedJson == "{\"quality_score\": 85"

JsonTexts == {QualityJson, OutOfRangeJson}

NonJsonTexts == {ProseText, "", TruncatedJson}

\* json.JSONDecodeError(msg, doc, pos): str(e) names the position only, the
\* text that failed to parse is kept in the attribute doc.
JSONDecodeError(doc) ==
    Exc("JSONDecodeError",
        IF doc = TruncatedJson
        THEN "Expecting ',' delimiter: line 1 column 21 (char 20)"
        ELSE "Expecting value: line 1 column 1 (char 0)",
        [doc |-> doc])

json_loads(text) ==
    CASE text = QualityJson ->
            Return([quality_score |-> 85, issues |-> <<>>,
                    metrics |-> [maintainability |-> 80, readability |-> 75,
                                 security |-> 90]])
      [] text = OutOfRangeJson ->
            Return([quality_score |-> 150, issues |-> <<>>,
                    metrics |-> [maintainability |-> 80, readability |-> 75,
                                 security |-> -5]])
      [] text = NullMetricsJson ->
            Return([quality_score |-> 85, issues |-> <<>>, metrics |-> None])
      [] text = EmptyObjectJson -> Return(EmptyDict)
      [] OTHER -> Raise(JSONDecodeError(text))

-----------------------------------------------------------------------------
(* The backend's answer to one outbound call *)

\* HTTP statuses a backend answers with: success, rejected credential,
\* server failure.
Statuses == {200, 401, 500}

Reply(kind, status, text, shape, content) ==
    [kind |-> kind, status |-> status, text |-> text, shape |-> shape,
     content |-> content]

NoReply == Reply("none", 0, "", "", "")

\* Connection refused, timeout, or a non-success status with an error body.
FailureReplies ==
    { Reply("unreachable", 0, "", "", ""), Reply("timeout", 0, "", "", ""),
      Reply("response", 401, "Unauthorized", "", ""),
      Reply("response", 500, "Internal Server Error", "", "") }

\* Status 200 with a chat-shaped body whose content field is `content`.
ChatReplies ==
    { Reply("response", 200, "", "chat", c) : c \in JsonTexts \cup NonJsonTexts }

\* Status 200 whose body is not JSON at all, or is JSON without 'choices'.
BrokenBodyReplies ==
    { Reply("response", 200, "<html>Bad Gateway</html>", "garbled", ""),
      Reply("response", 200, "{}", "nochoices", "") }

\* What an SDK client call can yield: an SDK exception or a message.
SDKReplies == FailureReplies \cup ChatReplies

\* What requests.post can yield: an exception or any response.
HTTPReplies == FailureReplies \cup ChatReplies \cup BrokenBodyReplies

TransportFailure(reply) ==
    reply.kind \in {"unreachable", "timeout"}
    \/ (reply.kind = "response" /\ reply.status # 200)

\* Exception raised by an SDK client call (openai / anthropic / google-genai)
SDKError(reply) ==
    CASE reply.kind = "unreachable" ->
            Exc("APIConnectionError", "Connection error.", EmptyDict)
      [] reply.kind = "timeout" ->
            Exc("APITimeoutError", "Request timed out.", EmptyDict)
      [] OTHER ->
            Exc("APIStatusError",
                "Error code: " \o ToString(reply.status) \o " - " \o reply.text,
                [status_code |-> reply.status, body |-> reply.text])

\* Exception raised by requests.post itself
RequestsError(reply) ==
    IF reply.kind = "unreachable"
    THEN Exc("ConnectionError", "Connection refused", EmptyDict)
    ELSE Exc("Timeout", "Read timed out.", EmptyDict)

-----------------------------------------------------------------------------
(* ai_service.py: adapters *)

Operations == {"analyze_code_quality", "generate_test_cases", "get_code_suggestions"}

NoProvider ==
    [class |-> "none", api_key |-> None, model |-> None, client |-> None,
     base_url |-> None, headers |-> EmptyDict]

\* _build_quality_prompt / _build_test_prompt / _build_suggestions_prompt:
\* a fixed template per operation with the language and the code embedded.
BuildPrompt(op, code_content, language) ==
    << CASE op = "analyze_code_quality" -> "quality"
         [] op = "generate_test_cases" -> "test"
         [] OTHER -> "suggestions",
       language, code_content >>

\* _initialize_client of each adapter class.  A guarded import that failed
\* left the name bound to None, so using it raises.
initialize_client(class, api_key, sdks) ==
    CASE class \in {"OpenAIProvider", "XAIProvider"} ->
            IF "openai" \in sdks THEN Return("OpenAI")
            ELSE Raise(Exc("TypeError", "'NoneType' object is not callable",
                           EmptyDict))
      [] class = "AnthropicProvider" ->
            IF "anthropic" \in sdks THEN Return("Anthropic")
            ELSE Raise(Exc("AttributeError",
                           "'NoneType' object has no attribute 'Anthropic'",
                           EmptyDict))
      [] class = "GeminiProvider" ->
            IF "google-genai" \in sdks THEN Return("genai.Client")
            ELSE Raise(Exc("AttributeError",
                           "'NoneType' object has no attribute 'Client'",
                           EmptyDict))
      [] OTHER -> Return(None)

\* Faulty variant: the SDK client is verified against the backend when built
ClientCallsEager(class, api_key, sdks) ==
    IF class \in {"OpenAIProvider", "XAIProvider"} /\ "openai" \in sdks
    THEN << [via |-> "OpenAI.models.list", api_key |-> api_key] >>
    ELSE <<>>

\* Outbound calls issued while _initialize_client runs: OpenAI(api_key=...),
\* anthropic.Anthropic(api_key=...) and genai.Client(api_key=...) only store
\* the credential, the requests-based adapters return None.
ClientCalls(class, api_key, sdks) == <<>>

\* AIProvider.__init__ (and HTTPProvider.__init__, which sets base_url and
\* headers first): stores the arguments and initializes the client.
AIProvider_init(class, api_key, model, base_url, headers, sdks) ==
    LET client == initialize_client(class, api_key, sdks) IN
    IF client.tag = "raise" THEN client
    ELSE Return([class |-> class, api_key |-> api_key, model |-> model,
                 client |-> client.value, base_url |-> base_url,
                 headers |-> headers])

\* Faulty variant: the chain ends in the 'together' branch instead of raising
create_ai_provider_wrong_branch(provider_name, api_key, model, sdks) ==
    CASE provider_name = "openai" ->
            AIProvider_init("OpenAIProvider", api_key, model, None, EmptyDict, sdks)
      [] provider_name = "anthropic" ->
            AIProvider_init("AnthropicProvider", api_key, model, None, EmptyDict, sdks)
      [] provider_name = "gemini" ->
            AIProvider_init("GeminiProvider", api_key, model, None, EmptyDict, sdks)
      [] provider_name = "perplexity" ->
            AIProvider_init("PerplexityProvider", api_key, model, None, EmptyDict, sdks)
      [] provider_name = "xai" ->
            AIProvider_init("XAIProvider", api_key, model, "https://api.x.ai/v1",
                            EmptyDict, sdks)
      [] provider_name = "cohere" ->
            AIProvider_init("HTTPProvider", api_key, model,
                            "https://api.cohere.ai/v1", EmptyDict, sdks)
      [] provider_name = "mistral" ->
            AIProvider_init("HTTPProvider", api_key, model,
                            "https://api.mistral.ai/v1", EmptyDict, sdks)
      [] provider_name = "huggingface" ->
            AIProvider_init("HTTPProvider", api_key, model,
                            "https://api-inference.huggingface.co/models",
                            EmptyDict, sdks)
      [] OTHER ->
            AIProvider_init("HTTPProvider", api_key, model,
                            "https://api.together.xyz/v1", EmptyDict, sdks)

create_ai_provider(provider_name, api_key, model, sdks) ==
    CASE provider_name = "openai" ->
            AIProvider_init("OpenAIProvider", api_key, model, None, EmptyDict, sdks)
      [] provider_name = "anthropic" ->
            AIProvider_init("AnthropicProvider", api_key, model, None, EmptyDict, sdks)
      [] provider_name = "gemini" ->
            AIProvider_init("GeminiProvider", api_key, model, None, EmptyDict, sdks)
      [] provider_name = "perplexity" ->
            AIProvider_init("PerplexityProvider", api_key, model, None, EmptyDict, sdks)
      [] provider_name = "xai" ->
            AIProvider_init("XAIProvider", api_key, model, "https://api.x.ai/v1",
                            EmptyDict, sdks)
      [] provider_name = "cohere" ->
            AIProvider_init("HTTPProvider", api_key, model,
                            "https://api.cohere.ai/v1", EmptyDict, sdks)
      [] provider_name = "mistral" ->
            AIProvider_init("HTTPProvider", api_key, model,
                            "https://api.mistral.ai/v1", EmptyDict, sdks)
      [] provider_name = "huggingface" ->
            AIProvider_init("HTTPProvider", api_key, model,
                            "https://api-inference.huggingface.co/models",
                            EmptyDict, sdks)
      [] provider_name = "together" ->
            AIProvider_init("HTTPProvider", api_key, model,
                            "https://api.together.xyz/v1", EmptyDict, sdks)
      [] OTHER ->
            Raise(Exc("ValueError",
                      "Unsupported AI provider: " \o provider_name, EmptyDict))

-----------------------------------------------------------------------------
(* ai_service.py: the three operations of each adapter *)

Request(via, url, api_key, headers, model, system, messages, contents, temperature, options) ==
    [via |-> via, url |-> url, api_key |-> api_key, headers |-> headers,
     model |-> model, system |-> system, messages |-> messages,
     contents |-> contents, temperature |-> temperature, options |-> options]

Message(role, content) == [role |-> role, content |-> content]

\* What a handler did: the outbound calls it issued and how it ended.
Done(calls, out) == [sent |-> calls, out |-> out]

\* System messages of OpenAIProvider and XAIProvider (and openai_service.py)
ChatSystemMessage(op) ==
    CASE op = "analyze_code_quality" ->
            "You are an expert code reviewer and static analysis tool. Provide detailed, actionable feedback on code quality, security, and best practices."
      [] op = "generate_test_cases" ->
            "You are an expert test engineer. Generate comprehensive, practical test cases that follow testing best practices and cover edge cases."
      [] OTHER ->
            "You are a senior software architect and code mentor. Provide actionable, specific suggestions for code improvement."

\* System messages of AnthropicProvider and PerplexityProvider
JsonSystemMessage(op) == ChatSystemMessage(op) \o " Always respond with valid JSON."

\* System messages of HTTPProvider
HTTPSystemMessage(op) ==
    CASE op = "analyze_code_quality" ->
            "You are an expert code reviewer. Analyze the code and provide detailed feedback in JSON format."
      [] op = "generate_test_cases" ->
            "You are a test engineer. Generate comprehensive test cases in JSON format."
      [] OTHER ->
            "You are a senior developer. Provide code improvement suggestions in JSON format."

\* temperature= of the SDK adapters that pass one per operation
OperationTemperature(op) == IF op = "generate_test_cases" THEN "0.4" ELSE "0.3"

\* Faulty variant: a failed exchange is attempted a second time
SDKCallRetried(req, reply) ==
    IF TransportFailure(reply) THEN Done(<<req, req>>, Raise(SDKError(reply)))
    ELSE Done(<<req>>, json_loads(reply.content))

\* An SDK call followed by `return json.loads(<reply text>)`: the SDK raises
\* on a failed exchange, a decode error propagates from json.loads.
SDKCallThenDecode(req, reply) ==
    Done(<<req>>,
         IF TransportFailure(reply) THEN Raise(SDKError(reply))
         ELSE json_loads(reply.content))

\* client.chat.completions.create(...) of OpenAIProvider / XAIProvider
ChatCompletionsCreate(api_key, base_url, model, op, prompt) ==
    Request("OpenAI.chat.completions.create", base_url, api_key, EmptyDict,
            model, None,
            << Message("system", ChatSystemMessage(op)), Message("user", prompt) >>,
            None, OperationTemperature(op),
            [response_format |-> "json_object"])

OpenAIProvider_operation(self, op, code_content, language, reply) ==
    SDKCallThenDecode(
        ChatCompletionsCreate(self.api_key, self.base_url, self.model, op,
                              BuildPrompt(op, code_content, language)),
        reply)

XAIProvider_operation(self, op, code_content, language, reply) ==
    SDKCallThenDecode(
        ChatCompletionsCreate(self.api_key, self.base_url, self.model, op,
                              BuildPrompt(op, code_content, language)),
        reply)

\* client.messages.create(...): no temperature argument is passed.
AnthropicProvider_operation(self, op, code_content, language, reply) ==
    SDKCallThenDecode(
        Request("Anthropic.messages.create", None, self.api_key, EmptyDict,
                self.model, JsonSystemMessage(op),
                << Message("user", BuildPrompt(op, code_content, language)) >>,
                None, None, [max_tokens |-> "4000"]),
        reply)

\* client.models.generate_content(...)
GeminiProvider_operation(self, op, code_content, language, reply) ==
    SDKCallThenDecode(
        Request("genai.models.generate_content", None, self.api_key, EmptyDict,
                self.model, None, <<>>,
                BuildPrompt(op, code_content, language),
                OperationTemperature(op),
                [response_mime_type |-> "application/json"]),
        reply)

\* response.json() followed by result['choices'][0]['message']['content']
ResponseContent(reply) ==
    CASE reply.shape = "garbled" -> Raise(JSONDecodeError(reply.text))
      [] reply.shape = "nochoices" -> Raise(Exc("KeyError", "'choices'", EmptyDict))
      [] OTHER -> Return(reply.content)

\* PerplexityProvider._make_request
PerplexityProvider_make_request(self, prompt, system_message, reply) ==
    LET headers == [Authorization |-> "Bearer " \o self.api_key] @@
                   ("Content-Type" :> "application/json")
        req == Request("requests.post",
                       "https://api.perplexity.ai/chat/completions", None,
                       headers, self.model, None,
                       << Message("system", system_message),
                          Message("user", prompt) >>,
                       None, "0.3", [stream |-> "False"])
        content == ResponseContent(reply)
    IN  Done(<<req>>,
             IF reply.kind # "response" THEN Raise(RequestsError(reply))
             ELSE IF reply.status = 200
             THEN IF content.tag = "raise" THEN content
                  ELSE json_loads(content.value)
             ELSE Raise(Exc("Exception",
                            "Perplexity API error: " \o ToString(reply.status)
                                \o " - " \o reply.text,
                            EmptyDict)))

PerplexityProvider_operation(self, op, code_content, language, reply) ==
    PerplexityProvider_make_request(self, BuildPrompt(op, code_content, language),
                                    JsonSystemMessage(op), reply)

\* Faulty variant: no fallback around json.loads, as in PerplexityProvider
HTTPProvider_make_request_strict(self, prompt, system_message, reply) ==
    PerplexityProvider_make_request(self, prompt, system_message, reply)

\* HTTPProvider._make_request
HTTPProvider_make_request(self, prompt, system_message, reply) ==
    LET headers == [Authorization |-> "Bearer " \o self.api_key] @@
                   ("Content-Type" :> "application/json")
        \* **self.headers comes last in the dict display: its keys win
        merged == [h \in DOMAIN headers \cup DOMAIN self.headers |->
                      IF h \in DOMAIN self.headers THEN self.headers[h]
                      ELSE headers[h]]
        req == Request("requests.post", self.base_url \o "/chat/completions",
                       None, merged, self.model, None,
                       << Message("system", system_message),
                          Message("user", prompt) >>,
                       None, "0.3", [max_tokens |-> "4000", timeout |-> "60"])
        content == ResponseContent(reply)
        decoded == json_loads(content.value)
    IN  Done(<<req>>,
             IF reply.kind # "response" THEN Raise(RequestsError(reply))
             ELSE IF reply.status = 200
             THEN IF content.tag = "raise" THEN content
                  ELSE IF decoded.tag = "raise"
                          /\ decoded.exc.type = "JSONDecodeError"
                  THEN Return([error |-> "Invalid JSON response",
                               content |-> content.value])
                  ELSE decoded
             ELSE Raise(Exc("Exception",
                            "API error: " \o ToString(reply.status)
                                \o " - " \o reply.text,
                            EmptyDict)))

HTTPProvider_operation(self, op, code_content, language, reply) ==
    HTTPProvider_make_request(self, BuildPrompt(op, code_content, language),
                              HTTPSystemMessage(op), reply)

\* Dynamic dispatch of adapter.<op>(code_content, language)
Invoke(self, op, code_content, language, reply) ==
    CASE self.class = "OpenAIProvider" ->
            OpenAIProvider_operation(self, op, code_content, language, reply)
      [] self.class = "AnthropicProvider" ->
            AnthropicProvider_operation(self, op, code_content, language, reply)
      [] self.class = "GeminiProvider" ->
            GeminiProvider_operation(self, op, code_content, language, reply)
      [] self.class = "PerplexityProvider" ->
            PerplexityProvider_operation(self, op, code_content, language, reply)
      [] self.class = "XAIProvider" ->
            XAIProvider_operation(self, op, code_content, language, reply)
      [] self.class = "HTTPProvider" ->
            HTTPProvider_operation(self, op, code_content, language, reply)

\* The replies the transport of an adapter class can produce
RepliesFor(class) ==
    IF class \in {"PerplexityProvider", "HTTPProvider"} THEN HTTPReplies
    ELSE SDKReplies

-----------------------------------------------------------------------------
(* openai_service.py: legacy single-backend wrapper *)

\* OPENAI_API_KEY = os.environ.get("OPENAI_API_KEY", "your-openai-api-key")
OPENAI_API_KEY(env) == Get(env, "OPENAI_API_KEY", "your-openai-api-key")

FailurePrefix(op) ==
    CASE op = "analyze_code_quality" -> "Failed to analyze code quality: "
      [] op = "generate_test_cases" -> "Failed to generate test cases: "
      [] OTHER -> "Failed to get code suggestions: "

\* analyze_code_quality / generate_test_cases / get_code_suggestions of
\* openai_service.py: the module-level client, model "gpt-4o", and every
\* exception re-raised as Exception(f"Failed to ...: {str(e)}").
openai_service_operation(op, code_content, language, env, reply) ==
    LET inner == SDKCallThenDecode(
                     ChatCompletionsCreate(OPENAI_API_KEY(env), None, "gpt-4o", op,
                                           BuildPrompt(op, code_content, language)),
                     reply)
    IN  Done(inner.sent,
             IF inner.out.tag = "raise"
             THEN Raise(Exc("Exception", FailurePrefix(op) \o inner.out.exc.msg,
                            EmptyDict))
             ELSE inner.out)

-----------------------------------------------------------------------------
(* ai_service.py: validate_api_key *)

\* response.raise_for_status(): raises HTTPError for 4xx and 5xx
raise_for_status(reply) == reply.status >= 400 /\ reply.status < 600

\* The probe of the backends reached through requests.post
RequestsProbe(url, api_key, model, messages, text) ==
    Request("requests.post", url, None,
            [Authorization |-> "Bearer " \o api_key] @@
            ("Content-Type" :> "application/json"),
            model, None, messages, text, None, [max_tokens |-> "1"])

\* The body of validate_api_key's try block: the probe call issued (none when
\* the client cannot be built or the provider is unknown) and its result.
ValidationProbe(provider_name, api_key, sdks, reply) ==
    LET sdk(req) == Done(<<req>>,
                         IF TransportFailure(reply) THEN Raise(SDKError(reply))
                         ELSE Return(TRUE))
        http(req) == Done(<<req>>,
                          IF reply.kind # "response" THEN Raise(RequestsError(reply))
                          ELSE IF raise_for_status(reply)
                          THEN Raise(Exc("HTTPError",
                                         ToString(reply.status) \o " Error",
                                         [response |-> reply.status]))
                          ELSE Return(TRUE))
        client(class) == initialize_client(class, api_key, sdks)
        test == << Message("user", "Test") >>
    IN  CASE provider_name = "openai" ->
                IF client("OpenAIProvider").tag = "raise"
                THEN Done(<<>>, client("OpenAIProvider"))
                ELSE sdk(Request("OpenAI.models.list", None, api_key, EmptyDict,
                                 None, None, <<>>, None, None, EmptyDict))
          [] provider_name = "anthropic" ->
                IF client("AnthropicProvider").tag = "raise"
                THEN Done(<<>>, client("AnthropicProvider"))
                ELSE sdk(Request("Anthropic.messages.create", None, api_key,
                                 EmptyDict, "claude-3-haiku-20240307", None,
                                 << Message("user", "Hi") >>, None, None,
                                 [max_tokens |-> "1"]))
          [] provider_name = "gemini" ->
                IF client("GeminiProvider").tag = "raise"
                THEN Done(<<>>, client("GeminiProvider"))
                ELSE sdk(Request("genai.models.generate_content", None, api_key,
                                 EmptyDict, "gemini-1.5-flash", None, <<>>,
                                 "Test", None, EmptyDict))
          [] provider_name = "perplexity" ->
                http(RequestsProbe("https://api.perplexity.ai/chat/completions",
                                   api_key, "llama-3.1-sonar-small-128k-online",
                                   test, None))
          [] provider_name = "xai" ->
                IF client("XAIProvider").tag = "raise"
                THEN Done(<<>>, client("XAIProvider"))
                ELSE sdk(Request("OpenAI.models.list", "https://api.x.ai/v1",
                                 api_key, EmptyDict, None, None, <<>>, None, None,
                                 EmptyDict))
          [] provider_name = "cohere" ->
                http(RequestsProbe("https://api.cohere.ai/v1/generate", api_key,
                                   "command", <<>>, "Test"))
          [] provider_name = "mistral" ->
                http(RequestsProbe("https://api.mistral.ai/v1/chat/completions",
                                   api_key, "mistral-small-latest", test, None))
          [] provider_name = "huggingface" ->
                http(RequestsProbe(
                    "https://api-inference.huggingface.co/models/microsoft/DialoGPT-large",
                    api_key, None, <<>>, "Test"))
          [] provider_name = "together" ->
                http(RequestsProbe("https://api.together.xyz/v1/chat/completions",
                                   api_key, "meta-llama/Llama-2-7b-chat-hf", test,
                                   None))
          [] OTHER -> Done(<<>>, Return(FALSE))

\* Faulty variant: the probe without its try/except
validate_api_key_uncaught(provider_name, api_key, sdks, reply) ==
    ValidationProbe(provider_name, api_key, sdks, reply)

\* validate_api_key: `except Exception: return False` around the probe
validate_api_key(provider_name, api_key, sdks, reply) ==
    LET probe == ValidationProbe(provider_name, api_key, sdks, reply) IN
    Done(probe.sent,
         IF probe.out.tag = "raise" THEN Return(FALSE) ELSE probe.out)

-----------------------------------------------------------------------------
(* ai_service.py / openai_service.py: detect_language *)
(* A str is a sequence of one-character strings.                           *)

UpperCase == <<"A", "B", "C", "D", "E", "F", "G", "H", "I", "J", "K", "L", "M", "N", "O", "P", "Q", "R", "S", "T", "U", "V", "W", "X", "Y", "Z">>

LowerCase == <<"a", "b", "c", "d", "e", "f", "g", "h", "i", "j", "k", "l", "m", "n", "o", "p", "q", "r", "s", "t", "u", "v", "w", "x", "y", "z">>

\* str.lower()
lower(s) ==
    [i \in 1..Len(s) |->
        IF \E j \in 1..Len(UpperCase) : UpperCase[j] = s[i]
        THEN LowerCase[CHOOSE j \in 1..Len(UpperCase) : UpperCase[j] = s[i]]
        ELSE s[i]]

\* str.rfind(ch) as a 1-based position, 0 when ch does not occur
rfind(s, ch) ==
    IF \E i \in 1..Len(s) : s[i] = ch
    THEN CHOOSE i \in 1..Len(s) :
            s[i] = ch /\ \A j \in (i + 1)..Len(s) : s[j] # ch
    ELSE 0

RECURSIVE SplitAtDot(_, _, _)
\* The loop of genericpath._splitext: skip the dots that lead the last path
\* component; split at the last dot once another character precedes it
SplitAtDot(p, filenameIndex, dotIndex) ==
    IF filenameIndex < dotIndex
    THEN IF p[filenameIndex] # "."
         THEN << SubSeq(p, 1, dotIndex - 1), SubSeq(p, dotIndex, Len(p)) >>
         ELSE SplitAtDot(p, filenameIndex + 1, dotIndex)
    ELSE << p, <<>> >>

\* os.path.splitext(p)
splitext(p) ==
    LET sepIndex == rfind(p, "/")
        dotIndex == rfind(p, ".")
    IN  IF dotIndex > sepIndex THEN SplitAtDot(p, sepIndex + 1, dotIndex)
        ELSE << p, <<>> >>

RECURSIVE Str(_)
\* The text of a character sequence
Str(chars) == IF chars = <<>> THEN "" ELSE Head(chars) \o Str(Tail(chars))

\* `needle in haystack` for str operands
Contains(haystack, needle) ==
    \E i \in 1..(Len(haystack) - Len(needle) + 1) :
        SubSeq(haystack, i, i + Len(needle) - 1) = needle

extension_map ==
    (".py" :> "python") @@
    (".js" :> "javascript") @@
    (".ts" :> "typescript") @@
    (".java" :> "java") @@
    (".cpp" :> "cpp") @@
    (".c" :> "c") @@
    (".cs" :> "csharp") @@
    (".php" :> "php") @@
    (".rb" :> "ruby") @@
    (".go" :> "go") @@
    (".rs" :> "rust") @@
    (".swift" :> "swift") @@
    (".kt" :> "kotlin") @@
    (".scala" :> "scala") @@
    (".sh" :> "bash") @@
    (".sql" :> "sql") @@
    (".html" :> "html") @@
    (".css" :> "css") @@
    (".json" :> "json") @@
    (".xml" :> "xml") @@
    (".yaml" :> "yaml") @@
    (".yml" :> "yaml")

\* The markers of the content heuristics
Marker_def == <<"d", "e", "f", " ">>

Marker_import == <<"i", "m", "p", "o", "r", "t", " ">>

Marker_function == <<"f", "u", "n", "c", "t", "i", "o", "n", " ">>

Marker_var == <<"v", "a", "r", " ">>

Marker_let == <<"l", "e", "t", " ">>

Marker_public_class == <<"p", "u", "b", "l", "i", "c", " ", "c", "l", "a", "s", "s", " ">>

Marker_main == <<"p", "u", "b", "l", "i", "c", " ", "s", "t", "a", "t", "i", "c", " ", "v", "o", "i", "d", " ", "m", "a", "i", "n">>

\* The elif chain under `if detected_language == 'text' and code_content`
ContentHeuristics(code_content) ==
    IF Contains(code_content, Marker_def) /\ Contains(code_content, Marker_import)
    THEN "python"
    ELSE IF Contains(code_content, Marker_function)
            /\ (Contains(code_content, Marker_var)
                \/ Contains(code_content, Marker_let))
    THEN "javascript"
    ELSE IF Contains(code_content, Marker_public_class)
            /\ Contains(code_content, Marker_main)
    THEN "java"
    ELSE "text"

\* Faulty variant: the extension is looked up without filename.lower()
detect_language_case_sensitive(filename, code_content) ==
    LET ext == Str(splitext(filename)[2])
        detected_language == Get(extension_map, ext, "text")
    IN  IF detected_language = "text" /\ code_content # <<>>
        THEN ContentHeuristics(code_content)
        ELSE detected_language

\* Faulty variant: the javascript heuristic is tried before the python one
detect_language_js_first(filename, code_content) ==
    LET ext == Str(splitext(lower(filename))[2])
        detected_language == Get(extension_map, ext, "text")
    IN  IF detected_language = "text" /\ code_content # <<>>
        THEN IF Contains(code_content, Marker_function)
                /\ (Contains(code_content, Marker_var)
                    \/ Contains(code_content, Marker_let))
             THEN "javascript"
             ELSE ContentHeuristics(code_content)
        ELSE detected_language

\* detect_language of ai_service.py
detect_language(filename, code_content) ==
    LET ext == Str(splitext(lower(filename))[2])
        detected_language == Get(extension_map, ext, "text")
    IN  IF detected_language = "text" /\ code_content # <<>>
        THEN ContentHeuristics(code_content)
        ELSE detected_language

\* detect_language of openai_service.py: the same table and heuristics
openai_service_detect_language(filename, code_content) ==
    LET ext == Str(splitext(lower(filename))[2])
        detected_language == Get(extension_map, ext, "text")
    IN  IF detected_language = "text" /\ code_content # <<>>
        THEN ContentHeuristics(code_content)
        ELSE detected_language

\* Filenames detect_language is exercised with: matched, unmatched, upper and
\* mixed case, no extension, leading dots, two dots, trailing dot, a dot in
\* the directory only
Filenames ==
    { <<"s", "a", "m", "p", "l", "e", ".", "p", "y">>,
      <<"s", "a", "m", "p", "l", "e", ".", "u", "n", "k", "n", "o", "w", "n", "e", "x", "t">>,
      <<"S", "A", "M", "P", "L", "E", ".", "P", "Y">>,
      <<"M", "a", "i", "n", ".", "J", "a", "v", "a">>,
      <<"n", "o", "t", "e", "s", ".", "t", "x", "t">>,
      <<"R", "E", "A", "D", "M", "E">>,
      <<".", "p", "y">>,
      <<"a", "r", "c", "h", "i", "v", "e", ".", "t", "a", "r", ".", "y", "m", "l">>,
      <<"s", "c", "r", "i", "p", "t", ".">>,
      <<"p", "k", "g", ".", "d", "/", "M", "a", "k", "e", "f", "i", "l", "e">>,
      <<".", ".", "j", "s">> }

\* File contents: empty, each heuristic alone, overlapping heuristics, one
\* marker of a pair only, upper-case markers
Contents ==
    { <<>>,
      <<"d", "e", "f", " ", "f", "(", ")", ":", " ", "i", "m", "p", "o", "r", "t", " ", "o", "s">>,
      <<"f", "u", "n", "c", "t", "i", "o", "n", " ", "f", "(", ")", " ", "{", " ", "v", "a", "r", " ", "x", " ", "}">>,
      <<"f", "u", "n", "c", "t", "i", "o", "n", " ", "f", "(", ")", " ", "{", " ", "l", "e", "t", " ", "x", " ", "}">>,
      <<"p", "u", "b", "l", "i", "c", " ", "c", "l", "a", "s", "s", " ", "A", " ", "{", " ", "p", "u", "b", "l", "i", "c", " ", "s", "t", "a", "t", "i", "c", " ", "v", "o", "i", "d", " ", "m", "a", "i", "n">>,
      <<"i", "m", "p", "o", "r", "t", " ", "o", "s", " ", "f", "u", "n", "c", "t", "i", "o", "n", " ", "f", "(", ")", " ", "{", " ", "v", "a", "r", " ", "x", " ", "}", " ", "d", "e", "f", " ", "g", "(", ")">>,
      <<"d", "e", "f", " ", "f", "(", ")", ":", " ", "p", "a", "s", "s">>,
      <<"f", "u", "n", "c", "t", "i", "o", "n", " ", "f", "(", ")", " ", "{", "}">>,
      <<"p", "u", "b", "l", "i", "c", " ", "c", "l", "a", "s", "s", " ", "A", " ", "{", "}">>,
      <<"f", "u", "n", "c", "t", "i", "o", "n", " ", "f", "(", ")", " ", "{", " ", "l", "e", "t", " ", "x", " ", "}", " ", "p", "u", "b", "l", "i", "c", " ", "c", "l", "a", "s", "s", " ", "A", " ", "{", " ", "p", "u", "b", "l", "i", "c", " ", "s", "t", "a", "t", "i", "c", " ", "v", "o", "i", "d", " ", "m", "a", "i", "n">>,
      <<"D", "E", "F", " ", "F", "(", ")", ":", " ", "I", "M", "P", "O", "R", "T", " ", "O", "S">> }

-----------------------------------------------------------------------------
(* routes.py: credential vault *)

\* Credential slots and secrets the vault is exercised with
KeySlots == << "OPENAI_API_KEY", "ANTHROPIC_API_KEY" >>

Secrets == {"sk-test", "sk-other"}

SlotSets == SUBSET {KeySlots[i] : i \in 1..Len(KeySlots)}

\* Every credential mapping slot name -> secret over KeySlots ({} included)
KeyDicts == UNION {[S -> Secrets] : S \in SlotSets}

RECURSIVE DumpItems(_, _)
\* The "key": "value" items of d, for the slots from position i on
DumpItems(d, i) ==
    IF i > Len(KeySlots) THEN <<>>
    ELSE IF KeySlots[i] \in DOMAIN d
         THEN << "\"" \o KeySlots[i] \o "\": \"" \o d[KeySlots[i]] \o "\"" >>
              \o DumpItems(d, i + 1)
         ELSE DumpItems(d, i + 1)

RECURSIVE Join(_)
Join(items) ==
    IF items = <<>> THEN ""
    ELSE IF Len(items) = 1 THEN items[1]
    ELSE items[1] \o ", " \o Join(Tail(items))

\* json.dumps of a credential mapping
json_dumps(d) == "{" \o Join(DumpItems(d, 1)) \o "}"

\* json.loads of the plaintext of a blob: the mapping whose JSON text it is,
\* JSONDecodeError for any other text.
json_loads_keys(text) ==
    IF \E d \in KeyDicts : json_dumps(d) = text
    THEN Return(CHOOSE d \in KeyDicts : json_dumps(d) = text)
    ELSE Raise(JSONDecodeError(text))

\* Keys: the value of ENCRYPTION_KEY, or the n-th Fernet.generate_key()
GeneratedKey(n) == "generated-key-" \o ToString(n)

ValidFernetKey(key) == key # "not-a-fernet-key"

\* Fernet(key): rejects a key that is not 32 url-safe base64-encoded bytes
Fernet(key) ==
    IF ValidFernetKey(key) THEN Return(key)
    ELSE Raise(Exc("ValueError",
                   "Fernet key must be 32 url-safe base64-encoded bytes.",
                   EmptyDict))

\* f.encrypt(data).decode(): a token only the same key opens
Fernet_encrypt(key, data) == "gAAAAAB[" \o key \o "]" \o data

\* Plaintexts a token may hold
Plaintexts == {json_dumps(d) : d \in KeyDicts} \cup {ProseText}

\* f.decrypt(token): the plaintext when the token was made with this key,
\* InvalidToken otherwise
Fernet_decrypt(key, token) ==
    IF \E data \in Plaintexts : Fernet_encrypt(key, data) = token
    THEN Return(CHOOSE data \in Plaintexts : Fernet_encrypt(key, data) = token)
    ELSE Raise(Exc("InvalidToken", "", EmptyDict))

\* os.environ.get('ENCRYPTION_KEY', Fernet.generate_key()): the default is
\* evaluated on every call; it is the result when the variable is unset.
EncryptionKey(env, fresh) == Get(env, "ENCRYPTION_KEY", fresh)

\* A vault call's result and the key it used (None when it used none)
Keyed(key, out) == [key |-> key, out |-> out]

encrypt_api_keys(api_keys_dict, env, fresh) ==
    IF api_keys_dict = EmptyDict THEN Keyed(None, Return(None))
    ELSE LET key == EncryptionKey(env, fresh)
             f == Fernet(key)
         IN  IF f.tag = "raise" THEN Keyed(key, f)
             ELSE Keyed(key, Return(Fernet_encrypt(f.value,
                                                   json_dumps(api_keys_dict))))

\* The body of decrypt_api_keys's try block
DecryptBody(encrypted_keys, env, fresh) ==
    LET key == EncryptionKey(env, fresh)
        f == Fernet(key)
        data == Fernet_decrypt(f.value, encrypted_keys)
    IN  IF f.tag = "raise" THEN Keyed(key, f)
        ELSE IF data.tag = "raise" THEN Keyed(key, data)
        ELSE Keyed(key, json_loads_keys(data.value))

\* Faulty variant: the try block without its except
decrypt_api_keys_uncaught(encrypted_keys, env, fresh) ==
    IF ~Truthy(encrypted_keys) THEN Keyed(None, Return(EmptyDict))
    ELSE DecryptBody(encrypted_keys, env, fresh)

\* Faulty variant: decryption always fails and the except hides it
decrypt_api_keys_always_empty(encrypted_keys, env, fresh) ==
    IF ~Truthy(encrypted_keys) THEN Keyed(None, Return(EmptyDict))
    ELSE Keyed(EncryptionKey(env, fresh), Return(EmptyDict))

decrypt_api_keys(encrypted_keys, env, fresh) ==
    IF ~Truthy(encrypted_keys) THEN Keyed(None, Return(EmptyDict))
    ELSE LET body == DecryptBody(encrypted_keys, env, fresh) IN
         IF body.out.tag = "raise" THEN Keyed(body.key, Return(EmptyDict))
         ELSE body

-----------------------------------------------------------------------------
(* routes.py / models.py: sessions, settings records and analyses *)

\* Faulty variant: every token drawn is the same
token_urlsafe_constant(n) == "sid-1"

\* secrets.token_urlsafe(32): the n-th token drawn, distinct from the others
token_urlsafe(n) == "sid-" \o ToString(n)

\* What a request handler works on: the session_id of the Flask session (None
\* when the cookie has none), the database, the tokens drawn, the generated
\* keys in use so far, the dict get_available_providers() returns and the
\* upload folder
Context(cookie, database, tokens, keys, providers, uploads) ==
    [cookie |-> cookie, db |-> database, minted |-> tokens, keygen |-> keys,
     catalog |-> providers, files |-> uploads]

\* models.UserSettings row
UserSettings(session_id, ai_provider, ai_model, api_keys) ==
    [session_id |-> session_id, ai_provider |-> ai_provider,
     ai_model |-> ai_model, api_keys |-> api_keys]

\* models.CodeAnalysis row as upload_file creates it: no results yet;
\* `content` is what the file at file_path holds
CodeAnalysis(file_path, language, content) ==
    [file_path |-> file_path, language |-> language, content |-> content,
     analysis_result |-> None,
     test_suggestions |-> None, quality_score |-> None, issues_count |-> 0,
     suggestions_count |-> 0, ai_model |-> None]

\* models.AnalysisMetrics row
AnalysisMetrics(analysis_id, metric_name, metric_value, metric_type) ==
    [analysis_id |-> analysis_id, metric_name |-> metric_name,
     metric_value |-> metric_value, metric_type |-> metric_type]

\* Responses of the views
Redirect(endpoint, category, message) ==
    [kind |-> "redirect", to |-> endpoint, flash |-> <<category, message>>]

Render(template, context) ==
    [kind |-> "render", template |-> template, context |-> context]

Jsonify(payload) == [kind |-> "json", payload |-> payload]

\* Flask's answer to an exception no view caught; errorhandler(500)
InternalServerError(e) == [kind |-> "error", status |-> 500, exc |-> e]

\* What a view did: the context it leaves, the outbound calls it issued, its
\* response, the credential mapping it decrypted (if it did) and the adapter
\* it constructed (if it did)
Outcome(ctx, calls, response, decrypted, api_keys, adapter) ==
    [ctx |-> ctx, sent |-> calls, out |-> response, decrypted |-> decrypted,
     api_keys |-> api_keys, adapter |-> adapter]

get_or_create_session_id(ctx) ==
    IF ctx.cookie = None
    THEN [ctx EXCEPT !.cookie = token_urlsafe(ctx.minted + 1),
                     !.minted = ctx.minted + 1]
    ELSE ctx

\* UserSettings.query.filter_by(session_id=session_id).first(): the position
\* of the first matching row, 0 for None
QueryFirst(rows, session_id) ==
    LET matches == {i \in 1..Len(rows) : rows[i].session_id = session_id}
    IN  IF matches = {} THEN 0
        ELSE CHOOSE i \in matches : \A j \in matches : i <= j

\* db.session.add(settings); db.session.commit() under the unique constraint
\* on user_settings.session_id
CommitNewSettings(rows, session_id) ==
    IF \E i \in 1..Len(rows) : rows[i].session_id = session_id
    THEN Raise(Exc("IntegrityError",
                   "UNIQUE constraint failed: user_settings.session_id",
                   EmptyDict))
    ELSE Return(Append(rows, UserSettings(session_id, "openai", "gpt-4o", None)))

\* get_user_settings run without interruption: the context it leaves and the
\* position of the settings row
get_user_settings(ctx) ==
    LET c == get_or_create_session_id(ctx)
        found == QueryFirst(c.db.settings, c.cookie)
        added == CommitNewSettings(c.db.settings, c.cookie)
    IN  IF found # 0 THEN [ctx |-> c, out |-> Return(found)]
        ELSE IF added.tag = "raise" THEN [ctx |-> c, out |-> added]
        ELSE [ctx |-> [c EXCEPT !.db.settings = added.value],
              out |-> Return(Len(added.value))]

\* Generated keys that came into use in one vault call: the default of
\* environ.get is the result only while ENCRYPTION_KEY is unset
KeysUsed(env, called) ==
    IF called /\ "ENCRYPTION_KEY" \notin DOMAIN env THEN 1 ELSE 0

\* The api_key_env slot names of the catalog
CredentialSlots ==
    {get_available_providers[p].api_key_env : p \in DOMAIN get_available_providers}

\* str.strip() on the values submitted in the settings form
strip(value) ==
    CASE value = " sk-test " -> "sk-test"
      [] value = "  " -> ""
      [] OTHER -> value

\* str.upper() on a backend identifier
upper(name) ==
    CASE name = "openai" -> "OPENAI"
      [] name = "anthropic" -> "ANTHROPIC"
      [] name = "gemini" -> "GEMINI"
      [] name = "perplexity" -> "PERPLEXITY"
      [] name = "xai" -> "XAI"
      [] name = "cohere" -> "COHERE"
      [] name = "mistral" -> "MISTRAL"
      [] name = "huggingface" -> "HUGGINGFACE"
      [] name = "together" -> "TOGETHER"
      [] OTHER -> name

\* Faulty variant: the pre-selection also narrows the backend's models in the
\* dict to the default one
PreselectNarrowsCatalog(providers, settings, selected_provider) ==
    IF ~(Truthy(selected_provider) /\ selected_provider \in DOMAIN providers)
    THEN Return([settings |-> settings, providers |-> providers])
    ELSE Return([settings |->
                    [settings EXCEPT
                        !.ai_provider = selected_provider,
                        !.ai_model = providers[selected_provider].models[1]],
                 providers |->
                    [providers EXCEPT
                        ![selected_provider].models =
                            << providers[selected_provider].models[1] >>]])

\* Faulty variant: the default is the last model of the backend
PreselectLastModel(providers, settings, selected_provider) ==
    IF ~(Truthy(selected_provider) /\ selected_provider \in DOMAIN providers)
    THEN Return([settings |-> settings, providers |-> providers])
    ELSE Return([settings |->
                    [settings EXCEPT
                        !.ai_provider = selected_provider,
                        !.ai_model =
                            providers[selected_provider].models[
                                Len(providers[selected_provider].models)]],
                 providers |-> providers])

\* `if selected_provider and selected_provider in providers:` of settings_page:
\* the settings object and the providers dict the block leaves, or the
\* IndexError of list(...)[0] on a backend without models
Preselect(providers, settings, selected_provider) ==
    IF ~(Truthy(selected_provider) /\ selected_provider \in DOMAIN providers)
    THEN Return([settings |-> settings, providers |-> providers])
    ELSE IF providers[selected_provider].models = <<>>
    THEN Raise(Exc("IndexError", "list index out of range", EmptyDict))
    ELSE Return([settings |->
                    [settings EXCEPT
                        !.ai_provider = selected_provider,
                        !.ai_model = providers[selected_provider].models[1]],
                 providers |-> providers])

\* The rest of settings_page once get_user_settings has returned the row at
\* position `row`: decrypt, pre-select ?provider= on the settings object
\* without committing it, render
settings_page_render(ctx, env, row, selected_provider) ==
    LET settings == ctx.db.settings[row]
        dec == decrypt_api_keys(settings.api_keys, env,
                                GeneratedKey(ctx.keygen + 1))
        c == [ctx EXCEPT !.keygen = @ + KeysUsed(env, Truthy(settings.api_keys))]
        chosen == Preselect(c.catalog, settings, selected_provider)
        shown == [ai_provider |-> chosen.value.settings.ai_provider,
                  ai_model |-> chosen.value.settings.ai_model]
    IN  IF dec.out.tag = "raise"
        THEN Outcome(c, <<>>, InternalServerError(dec.out.exc), FALSE,
                     EmptyDict, NoProvider)
        ELSE IF chosen.tag = "raise"
        THEN Outcome(c, <<>>, InternalServerError(chosen.exc), TRUE,
                     dec.out.value, NoProvider)
        ELSE Outcome([c EXCEPT !.catalog = chosen.value.providers], <<>>,
                     Render("settings.html",
                            [settings |-> shown, api_keys |-> dec.out.value]),
                     TRUE, dec.out.value, NoProvider)

\* GET /settings
settings_page(ctx, env, selected_provider) ==
    LET gs == get_user_settings(ctx) IN
    IF gs.out.tag = "raise"
    THEN Outcome(gs.ctx, <<>>, InternalServerError(gs.out.exc), FALSE,
                 EmptyDict, NoProvider)
    ELSE settings_page_render(gs.ctx, env, gs.out.value, selected_provider)

\* POST /settings
update_settings(ctx, env, form) ==
    LET gs == get_user_settings(ctx)
        c1 == gs.ctx
        row == gs.out.value
        settings == c1.db.settings[row]
        dec == decrypt_api_keys(settings.api_keys, env,
                                GeneratedKey(c1.keygen + 1))
        k1 == c1.keygen + KeysUsed(env, Truthy(settings.api_keys))
        old == dec.out.value
        filled == {f \in CredentialSlots :
                      Truthy(Get(form, f, None)) /\ Truthy(strip(form[f]))}
        api_keys == [f \in DOMAIN old \cup filled |->
                        IF f \in filled THEN strip(form[f]) ELSE old[f]]
        enc == encrypt_api_keys(api_keys, env, GeneratedKey(k1 + 1))
        k2 == k1 + KeysUsed(env, api_keys # EmptyDict)
        updated == [settings EXCEPT
                       !.ai_provider = Get(form, "ai_provider", "openai"),
                       !.ai_model = Get(form, "ai_model", "gpt-4o"),
                       !.api_keys = enc.out.value]
        failed(c, e, decrypted) ==
            Outcome(c, <<>>,
                    Redirect("settings_page", "error",
                             "Error updating settings: " \o e.msg),
                    decrypted, EmptyDict, NoProvider)
    IN  IF gs.out.tag = "raise" THEN failed(c1, gs.out.exc, FALSE)
        ELSE IF dec.out.tag = "raise"
        THEN failed([c1 EXCEPT !.keygen = k1], dec.out.exc, FALSE)
        ELSE IF enc.out.tag = "raise"
        THEN failed([c1 EXCEPT !.keygen = k2], enc.out.exc, TRUE)
        ELSE Outcome([c1 EXCEPT !.keygen = k2, !.db.settings[row] = updated],
                     <<>>,
                     Redirect("settings_page", "success",
                              "Settings updated successfully!"),
                     TRUE, old, NoProvider)

\* Faulty variant: a missing credential is replaced by a placeholder
LookupApiKeyPlaceholder(api_keys, env, required_key) ==
    IF Truthy(Get(api_keys, required_key, None)) THEN api_keys[required_key]
    ELSE Get(env, required_key, "your-api-key")

\* api_keys.get(required_key) or os.environ.get(required_key)
LookupApiKey(api_keys, env, required_key) ==
    IF Truthy(Get(api_keys, required_key, None)) THEN api_keys[required_key]
    ELSE Get(env, required_key, None)

\* The keys of the report's metrics object, in the order of the reply
MetricNames == << "complexity", "maintainability", "readability", "security" >>

RECURSIVE MetricRows(_, _, _)
\* for metric_name, metric_value in metrics.items(): one row per entry
MetricRows(analysis_id, metrics, i) ==
    IF i > Len(MetricNames) THEN <<>>
    ELSE IF MetricNames[i] \in DOMAIN metrics
         THEN << AnalysisMetrics(analysis_id, MetricNames[i],
                                 ToString(metrics[MetricNames[i]]), "quality") >>
              \o MetricRows(analysis_id, metrics, i + 1)
         ELSE MetricRows(analysis_id, metrics, i + 1)

\* json.dumps of a result object: the text, kept as the value it encodes
JsonText(value) == [json |-> value]

\* Faulty variant: the suggestions are requested first, the report last
AnalysisOperationsReversed ==
    << "get_code_suggestions", "generate_test_cases", "analyze_code_quality" >>

\* The adapter operations in the order analyze_file invokes them
AnalysisOperations ==
    << "analyze_code_quality", "generate_test_cases", "get_code_suggestions" >>

\* Faulty variant: the handler commits what the request had written so far
AbandonSessionCommits(committed, working) == working

\* A view ends without db.session.commit(): the changes its db.session holds
\* (`working`) are dropped with the request, the database keeps `committed`
AbandonSession(committed, working) == committed

\* GET /analyze/<analysis_id>; replies[i] answers the i-th outbound call
analyze_file(ctx, env, sdks, analysis_id, replies) ==
    LET gs == get_user_settings(ctx)
        c1 == gs.ctx
        settings == c1.db.settings[gs.out.value]
        dec == decrypt_api_keys(settings.api_keys, env,
                                GeneratedKey(c1.keygen + 1))
        c2 == [c1 EXCEPT !.keygen = @ + KeysUsed(env, Truthy(settings.api_keys))]
        api_keys == dec.out.value
        required_key == c2.catalog[settings.ai_provider].api_key_env
        api_key == LookupApiKey(api_keys, env, required_key)
        analysis == c2.db.analyses[analysis_id]
        ai_provider == create_ai_provider(settings.ai_provider, api_key,
                                          settings.ai_model, sdks)
        first == Invoke(ai_provider.value, AnalysisOperations[1],
                        analysis.content, analysis.language, replies[1])
        second == Invoke(ai_provider.value, AnalysisOperations[2],
                         analysis.content, analysis.language, replies[2])
        third == Invoke(ai_provider.value, AnalysisOperations[3],
                        analysis.content, analysis.language, replies[3])
        quality_analysis == first.out.value
        test_suggestions == second.out.value
        code_suggestions == third.out.value
        stored_analysis ==
            [analysis EXCEPT
                !.analysis_result =
                    JsonText([quality_analysis |-> quality_analysis,
                              code_suggestions |-> code_suggestions]),
                !.test_suggestions = JsonText(test_suggestions),
                !.quality_score = Get(quality_analysis, "quality_score", 0),
                !.issues_count = Len(Get(quality_analysis, "issues", <<>>)),
                !.suggestions_count =
                    Len(Get(code_suggestions, "refactoring_suggestions", <<>>)),
                !.ai_model = settings.ai_provider \o ":" \o settings.ai_model]
        assigned == [c2.db EXCEPT !.analyses[analysis_id] = stored_analysis]
        metrics == Get(quality_analysis, "metrics", EmptyDict)
        added == [assigned EXCEPT
                     !.metrics = @ \o MetricRows(analysis_id, metrics, 1)]
        failed(c, calls, e, decrypted, keys, adapter) ==
            Outcome(c, calls,
                    Redirect("dashboard", "error",
                             "Error during analysis: " \o e.msg),
                    decrypted, keys, adapter)
    IN  IF analysis_id \notin DOMAIN ctx.db.analyses
        THEN failed(ctx, <<>>, Exc("NotFound", "404 Not Found", EmptyDict),
                    FALSE, EmptyDict, NoProvider)
        ELSE IF gs.out.tag = "raise"
        THEN failed(c1, <<>>, gs.out.exc, FALSE, EmptyDict, NoProvider)
        ELSE IF dec.out.tag = "raise"
        THEN failed(c2, <<>>, dec.out.exc, FALSE, EmptyDict, NoProvider)
        ELSE IF settings.ai_provider \notin DOMAIN c2.catalog
        THEN failed(c2, <<>>,
                    Exc("KeyError", "'" \o settings.ai_provider \o "'", EmptyDict),
                    TRUE, api_keys, NoProvider)
        ELSE IF ~Truthy(api_key)
        THEN Outcome(c2, <<>>,
                     Redirect("settings_page", "error",
                              "Please configure your "
                                  \o upper(settings.ai_provider)
                                  \o " API key in settings."),
                     TRUE, api_keys, NoProvider)
        ELSE IF analysis.file_path \notin c2.files
        THEN failed(c2, <<>>,
                    Exc("FileNotFoundError",
                        "[Errno 2] No such file or directory: '"
                            \o analysis.file_path \o "'",
                        EmptyDict),
                    TRUE, api_keys, NoProvider)
        ELSE IF ai_provider.tag = "raise"
        THEN failed(c2, <<>>, ai_provider.exc, TRUE, api_keys, NoProvider)
        ELSE IF first.out.tag = "raise"
        THEN failed(c2, first.sent, first.out.exc, TRUE, api_keys,
                    ai_provider.value)
        ELSE IF second.out.tag = "raise"
        THEN failed(c2, first.sent \o second.sent, second.out.exc, TRUE,
                    api_keys, ai_provider.value)
        ELSE IF third.out.tag = "raise"
        THEN failed(c2, first.sent \o second.sent \o third.sent,
                    third.out.exc, TRUE, api_keys, ai_provider.value)
        ELSE IF IsNone(metrics)
        THEN failed([c2 EXCEPT !.db = AbandonSession(c2.db, assigned)],
                    first.sent \o second.sent \o third.sent,
                    Exc("AttributeError",
                        "'NoneType' object has no attribute 'items'",
                        EmptyDict),
                    TRUE, api_keys, ai_provider.value)
        ELSE Outcome([c2 EXCEPT !.db = added],
                     first.sent \o second.sent \o third.sent,
                     Redirect("view_analysis", "success",
                              "Analysis completed successfully!"),
                     TRUE, api_keys, ai_provider.value)

\* Faulty variant: only the analysis is deleted, its metrics rows stay
DeleteRowsKeepsMetrics(database, analysis_id) ==
    [database EXCEPT
        !.analyses = [i \in DOMAIN database.analyses \ {analysis_id} |->
                         database.analyses[i]]]

\* AnalysisMetrics.query.filter_by(analysis_id=analysis.id).delete() and
\* db.session.delete(analysis): the tables as the request's db.session has
\* them before the commit
DeleteRows(database, analysis_id) ==
    [database EXCEPT
        !.metrics = SelectSeq(@, LAMBDA m : m.analysis_id # analysis_id),
        !.analyses = [i \in DOMAIN database.analyses \ {analysis_id} |->
                         database.analyses[i]]]

\* POST /delete/<analysis_id>; `removable` tells whether os.remove succeeds,
\* `committable` whether db.session.commit() does
delete_analysis(ctx, analysis_id, removable, committable) ==
    LET analysis == ctx.db.analyses[analysis_id]
        on_disk == analysis.file_path \in ctx.files
        c1 == [ctx EXCEPT !.files = @ \ {analysis.file_path}]
        working == DeleteRows(c1.db, analysis_id)
        failed(c, e) ==
            Outcome(c, <<>>,
                    Redirect("dashboard", "error",
                             "Error deleting analysis: " \o e.msg),
                    FALSE, EmptyDict, NoProvider)
    IN  IF analysis_id \notin DOMAIN ctx.db.analyses
        THEN failed(ctx, Exc("NotFound", "404 Not Found", EmptyDict))
        ELSE IF on_disk /\ ~removable
        THEN failed(ctx,
                    Exc("PermissionError",
                        "[Errno 13] Permission denied: '"
                            \o analysis.file_path \o "'",
                        EmptyDict))
        ELSE IF ~committable
        THEN failed([c1 EXCEPT !.db = AbandonSession(c1.db, working)],
                    Exc("OperationalError", "database is locked", EmptyDict))
        ELSE Outcome([c1 EXCEPT !.db = working], <<>>,
                     Redirect("dashboard", "success",
                              "Analysis deleted successfully!"),
                     FALSE, EmptyDict, NoProvider)

\* The request body as request.get_json() sees it: a JSON object, JSON null,
\* or a body that is not JSON
Body(kind, data) == [kind |-> kind, data |-> data]

\* Faulty variant: only absent fields count as missing, empty ones do not
MissingFieldAbsentOnly(provider_name, api_key) ==
    provider_name = None \/ api_key = None

\* `if not provider or not api_key:`
MissingField(provider_name, api_key) ==
    ~Truthy(provider_name) \/ ~Truthy(api_key)

\* The try block of validate_api_key_route on context ctx
ValidateRouteBody(ctx, sdks, body, reply) ==
    LET data == body.data
        provider_name == Get(data, "provider", None)
        api_key == Get(data, "api_key", None)
        is_valid == validate_api_key(provider_name, api_key, sdks, reply)
        answer(calls, payload) ==
            Outcome(ctx, calls, Jsonify(payload), FALSE, EmptyDict, NoProvider)
    IN  CASE body.kind = "invalid" ->
                answer(<<>>, [valid |-> FALSE,
                              error |-> "400 Bad Request: Failed to decode JSON object"])
          [] body.kind = "null" ->
                answer(<<>>, [valid |-> FALSE,
                              error |-> "'NoneType' object has no attribute 'get'"])
          [] OTHER ->
                IF MissingField(provider_name, api_key)
                THEN answer(<<>>, [valid |-> FALSE,
                                   error |-> "Missing provider or API key"])
                ELSE IF is_valid.out.tag = "raise"
                THEN answer(is_valid.sent,
                            [valid |-> FALSE, error |-> is_valid.out.exc.msg])
                ELSE answer(is_valid.sent, [valid |-> is_valid.out.value])

\* Faulty variant: the view loads (and so creates) the caller's settings row
validate_api_key_route_with_settings(ctx, sdks, body, reply) ==
    ValidateRouteBody(get_user_settings(ctx).ctx, sdks, body, reply)

\* POST /validate_api_key
validate_api_key_route(ctx, sdks, body, reply) ==
    ValidateRouteBody(ctx, sdks, body, reply)

-----------------------------------------------------------------------------
(* Inputs *)

\* Backend identifiers callers pass: every catalog key and three others
ProviderNames == DOMAIN AI_PROVIDERS \cup {"not-a-real-backend", "OpenAI", ""}

ApiKeys == {"sk-test", "obviously-invalid-key"}

\* model arguments: a model of the openai backend (foreign to every other
\* backend) and a model of no backend
Models == {"gpt-4o", "no-such-model"}

Codes == {"def run(): import os"}

Languages == {"python"}

AdapterClasses ==
    {"OpenAIProvider", "AnthropicProvider", "GeminiProvider",
     "PerplexityProvider", "XAIProvider", "HTTPProvider"}

LegacyOperations == {"openai_service." \o op : op \in Operations}

\* Process environments of the adapter layer
CoreEnvironments == {EmptyDict, [OPENAI_API_KEY |-> "sk-env"]}

\* Process environments of the vault: no key, two valid keys, a malformed key
VaultEnvironments ==
    {EmptyDict, [ENCRYPTION_KEY |-> "KEY_A"], [ENCRYPTION_KEY |-> "KEY_B"],
     [ENCRYPTION_KEY |-> "not-a-fernet-key"]}

\* Blobs the vault may be handed that no encrypt call of this process made:
\* absent, empty, garbage, sealed under KEY_B, sealed text that is not JSON
ForeignBlobs ==
    {None, "", "garbage",
     Fernet_encrypt("KEY_B", json_dumps([OPENAI_API_KEY |-> "sk-test"])),
     Fernet_encrypt("KEY_A", ProseText)}

\* headers= arguments HTTPProvider is constructed with: none, an additional
\* header, a header named Authorization
ExtraHeaders ==
    {EmptyDict, ("X-Title" :> "CodeSpark"), [Authorization |-> "Bearer sk-extra"]}

\* Browsers, each with its own cookie jar
Clients == {"a", "b"}

\* The browser whose requests the view machine serves one at a time
Visitors == {"a"}

\* Workers of the server that run requests concurrently
Workers == {1, 2}

\* POST /settings forms: empty, openai with a padded key, anthropic with its
\* key and a blank openai field, together without a key, an id that is not
\* in the catalog
Forms ==
    { EmptyDict,
      [ai_provider |-> "openai", ai_model |-> "gpt-4o",
       OPENAI_API_KEY |-> " sk-test "],
      [ai_provider |-> "anthropic", ai_model |-> "claude-sonnet-4-20250514",
       ANTHROPIC_API_KEY |-> "sk-other", OPENAI_API_KEY |-> "  "],
      [ai_provider |-> "together",
       ai_model |-> "meta-llama/Llama-2-70b-chat-hf"],
      [ai_provider |-> "not-a-real-backend"] }

\* ?provider= of GET /settings
SelectedProviders == {None, "anthropic"}

\* ?provider= of GET /settings: absent, empty, every catalog key, another id
ProviderQueries == {None, "", "not-a-real-backend"} \cup DOMAIN AI_PROVIDERS

\* os.path.join(UPLOAD_FOLDER, timestamp + filename) of the uploaded file
UploadPath == "uploads/20250101_120000_sample.py"

\* <analysis_id> of GET /analyze: the uploaded analysis and a missing one
AnalysisIds == {1, 2}

\* Replies to the quality call of analyze_file
QualityReplies ==
    { Reply("response", 200, "", "chat", QualityJson),
      Reply("response", 200, "", "chat", OutOfRangeJson),
      Reply("response", 200, "", "chat", NullMetricsJson),
      Reply("response", 200, "", "chat", ProseText),
      Reply("response", 401, "Unauthorized", "", "") }

\* Replies to the test and suggestion calls of analyze_file
FollowUpReplies ==
    { Reply("response", 200, "", "chat", QualityJson),
      Reply("response", 401, "Unauthorized", "", "") }

\* Replies to the probe of the /validate_api_key route
RouteProbeReplies ==
    { Reply("response", 200, "", "chat", QualityJson),
      Reply("response", 401, "Unauthorized", "", ""),
      Reply("unreachable", 0, "", "", "") }

\* Bodies posted to /validate_api_key
Bodies ==
    { Body("invalid", EmptyDict), Body("null", EmptyDict),
      Body("json", EmptyDict),
      Body("json", [provider |-> "openai"]),
      Body("json", [api_key |-> "sk-test"]),
      Body("json", [provider |-> "openai", api_key |-> ""]),
      Body("json", [provider |-> "", api_key |-> "sk-test"]),
      Body("json", [provider |-> "OpenAI", api_key |-> "sk-test"]),
      Body("json", [provider |-> "openai", api_key |-> "sk-test"]),
      Body("json", [provider |-> "mistral", api_key |-> "obviously-invalid-key"]),
      Body("json", [provider |-> "not-a-real-backend", api_key |-> "sk-test"]) }

\* Process environments of the web application: nothing set, a backend
\* credential set, the encryption key set
RouteEnvironments ==
    {EmptyDict, [OPENAI_API_KEY |-> "sk-env"], [ENCRYPTION_KEY |-> "KEY_A"]}

\* Cap on session ids drawn
MaxSessions == 2

\* Cap on AnalysisMetrics rows
MaxMetrics == 6

\* Cap on Fernet.generate_key() calls explored
MaxKeygen == 3

-----------------------------------------------------------------------------
(* State machine of the adapter layer *)

Handled(op, arg, reply, done) ==
    [op |-> op, arg |-> arg,
     reply |-> IF done.sent = <<>> THEN NoReply ELSE reply,
     out |-> done.out]

VaultIdle ==
    [op |-> "start", mapping |-> EmptyDict, blob |-> None, key |-> None,
     out |-> Return(EmptyDict)]

\* No request in flight on a worker
Idle ==
    [pc |-> "idle", client |-> None, cookie |-> None, fresh |-> FALSE,
     selected |-> None, out |-> Return(0)]

\* The web application before any request: empty database, no cookies
RouteInit ==
    /\ db = [settings |-> <<>>, analyses |-> <<>>, metrics |-> <<>>]
    /\ browser = [c \in Clients |-> None]
    /\ minted = 0
    /\ pending = [w \in Workers |-> Idle]
    /\ catalog = AI_PROVIDERS
    /\ files = {}

VaultInit ==
    /\ keygen = 0
    /\ stored = None
    /\ origin = [mapping |-> EmptyDict, key |-> None, same_process |-> TRUE]
    /\ vault = VaultIdle

CoreInit ==
    /\ provider = NoProvider
    /\ sent = <<>>
    /\ last = Handled("start", <<>>, NoReply, Done(<<>>, Return(None)))

Init ==
    /\ installed \in SUBSET OptionalSDKs
    /\ environ \in CoreEnvironments
    /\ CoreInit
    /\ VaultInit
    /\ RouteInit

\* ai_provider = create_ai_provider(provider_name, api_key, model)
CreateAIProvider ==
    \E p \in ProviderNames, k \in ApiKeys, m \in Models :
        LET r == create_ai_provider(p, k, m, installed) IN
        /\ provider' = IF r.tag = "return" THEN r.value ELSE NoProvider
        /\ sent' = IF r.tag = "return"
                   THEN ClientCalls(r.value.class, k, installed) ELSE <<>>
        /\ last' = Handled("create_ai_provider", <<p, k, m>>, NoReply,
                           Done(<<>>, r))
        /\ UNCHANGED <<installed, environ, vaultVars, routeVars>>

\* HTTPProvider(api_key, model, base_url, headers) constructed directly, with
\* the headers argument the factory never passes
ConstructHTTPProvider ==
    \E k \in ApiKeys, m \in Models, h \in ExtraHeaders :
        LET url == "https://api.together.xyz/v1"
            r == AIProvider_init("HTTPProvider", k, m, url, h, installed)
        IN  /\ provider' = r.value
            /\ sent' = ClientCalls("HTTPProvider", k, installed)
            /\ last' = Handled("HTTPProvider", <<k, m, url, h>>, NoReply,
                               Done(<<>>, r))
            /\ UNCHANGED <<installed, environ, vaultVars, routeVars>>

\* ai_provider.<op>(code_content, language)
AdapterOperation(op) ==
    /\ provider # NoProvider
    /\ \E c \in Codes, l \in Languages, reply \in RepliesFor(provider.class) :
        LET done == Invoke(provider, op, c, l, reply) IN
        /\ sent' = done.sent
        /\ last' = Handled(op, <<provider.class, c, l>>, reply, done)
    /\ UNCHANGED <<installed, environ, provider, vaultVars, routeVars>>

AnalyzeCodeQuality == AdapterOperation("analyze_code_quality")

GenerateTestCases == AdapterOperation("generate_test_cases")

GetCodeSuggestions == AdapterOperation("get_code_suggestions")

\* openai_service.<op>(code_content, language); the module imports openai
\* unguarded, so it exists only where the SDK is installed
LegacyOperation(op) ==
    /\ "openai" \in installed
    /\ \E c \in Codes, l \in Languages, reply \in SDKReplies :
        LET done == openai_service_operation(op, c, l, environ, reply) IN
        /\ sent' = done.sent
        /\ last' = Handled("openai_service." \o op, <<"openai_service", c, l>>,
                           reply, done)
    /\ UNCHANGED <<installed, environ, provider, vaultVars, routeVars>>

LegacyAnalyzeCodeQuality == LegacyOperation("analyze_code_quality")

LegacyGenerateTestCases == LegacyOperation("generate_test_cases")

LegacyGetCodeSuggestions == LegacyOperation("get_code_suggestions")

\* The replies the probe of a backend can get
ProbeReplies(p) ==
    IF p \in {"openai", "anthropic", "gemini", "xai"} THEN SDKReplies
    ELSE HTTPReplies

\* validate_api_key(provider, api_key)
ValidateApiKey ==
    \E p \in ProviderNames, k \in ApiKeys :
        \E reply \in ProbeReplies(p) :
            LET done == validate_api_key(p, k, installed, reply) IN
            /\ sent' = done.sent
            /\ last' = Handled("validate_api_key", <<p, k>>, reply, done)
            /\ UNCHANGED <<installed, environ, provider, vaultVars, routeVars>>

Next ==
    \/ CreateAIProvider
    \/ ConstructHTTPProvider
    \/ AnalyzeCodeQuality
    \/ GenerateTestCases
    \/ GetCodeSuggestions
    \/ LegacyAnalyzeCodeQuality
    \/ LegacyGenerateTestCases
    \/ LegacyGetCodeSuggestions

Spec == Init /\ [][Next]_vars

-----------------------------------------------------------------------------
(* State machine of the credential validator *)

InitProbe ==
    /\ installed \in SUBSET OptionalSDKs
    /\ environ = EmptyDict
    /\ CoreInit
    /\ VaultInit
    /\ RouteInit

NextProbe == ValidateApiKey

ProbeSpec == InitProbe /\ [][NextProbe]_vars

-----------------------------------------------------------------------------
(* State machine of language detection *)

\* An uploaded file's name and content, before detection
InitLang ==
    /\ installed = OptionalSDKs
    /\ environ = EmptyDict
    /\ provider = NoProvider
    /\ sent = <<>>
    /\ \E f \in Filenames, c \in Contents :
          last = Handled("start", <<f, c>>, NoReply, Done(<<>>, Return(None)))
    /\ VaultInit
    /\ RouteInit

\* language = detect_language(filename, code_content)
DetectLanguage ==
    LET f == last.arg[1]
        c == last.arg[2]
    IN  /\ last' = Handled("detect_language", <<f, c>>, NoReply,
                           Done(<<>>, Return(detect_language(f, c))))
        /\ UNCHANGED <<installed, environ, provider, sent, vaultVars, routeVars>>

\* openai_service.detect_language(filename, code_content)
LegacyDetectLanguage ==
    LET f == last.arg[1]
        c == last.arg[2]
    IN  /\ last' = Handled("openai_service.detect_language", <<f, c>>, NoReply,
                           Done(<<>>, Return(openai_service_detect_language(f, c))))
        /\ UNCHANGED <<installed, environ, provider, sent, vaultVars, routeVars>>

NextLang ==
    \/ DetectLanguage
    \/ LegacyDetectLanguage

LangSpec == InitLang /\ [][NextLang]_vars

-----------------------------------------------------------------------------
(* State machine of the views (each request runs to completion) *)

\* The application started on a database that holds one uploaded file
InitRoute ==
    /\ installed = OptionalSDKs
    /\ environ \in RouteEnvironments
    /\ CoreInit
    /\ VaultInit
    /\ \E c \in Codes, l \in Languages :
          db = [settings |-> <<>>,
                analyses |-> (1 :> CodeAnalysis(UploadPath, l, c)),
                metrics |-> <<>>]
    /\ browser = [c \in Clients |-> None]
    /\ minted = 0
    /\ pending = [w \in Workers |-> Idle]
    /\ catalog = AI_PROVIDERS
    /\ files = {UploadPath}

\* The record of the last request served
RouteHandled(op, client, input, replies, done) ==
    [op |-> op, arg |-> <<client, input>>,
     reply |-> SubSeq(replies, 1, Len(done.sent)), out |-> done.out,
     session_id |-> done.ctx.cookie, decrypted |-> done.decrypted,
     api_keys |-> done.api_keys, adapter |-> done.adapter]

\* A view ran for `client`: its effects are committed, the response carries
\* the session cookie
Served(op, client, input, replies, done) ==
    /\ done.ctx.minted <= MaxSessions
    /\ done.ctx.keygen <= MaxKeygen
    /\ Len(done.ctx.db.metrics) <= MaxMetrics
    /\ db' = done.ctx.db
    /\ browser' = [browser EXCEPT ![client] = done.ctx.cookie]
    /\ minted' = done.ctx.minted
    /\ keygen' = done.ctx.keygen
    /\ catalog' = done.ctx.catalog
    /\ files' = done.ctx.files
    /\ sent' = done.sent
    /\ last' = RouteHandled(op, client, input, replies, done)
    /\ UNCHANGED <<installed, environ, provider, stored, origin, vault, pending>>

SettingsPage ==
    \E client \in Visitors, selected \in ProviderQueries :
        Served("settings_page", client, selected, <<>>,
               settings_page(Context(browser[client], db, minted, keygen, catalog, files),
                             environ, selected))

UpdateSettings ==
    \E client \in Visitors, form \in Forms :
        Served("update_settings", client, form, <<>>,
               update_settings(Context(browser[client], db, minted, keygen, catalog, files),
                               environ, form))

AnalyzeFile ==
    \E client \in Visitors, id \in AnalysisIds :
        \E r1 \in QualityReplies, r2 \in FollowUpReplies, r3 \in FollowUpReplies :
            Served("analyze_file", client, id, <<r1, r2, r3>>,
                   analyze_file(Context(browser[client], db, minted, keygen, catalog, files),
                                environ, installed, id, <<r1, r2, r3>>))

ValidateApiKeyRoute ==
    \E client \in Visitors, body \in Bodies, reply \in RouteProbeReplies :
        Served("validate_api_key_route", client, body, <<reply>>,
               validate_api_key_route(Context(browser[client], db, minted, keygen, catalog, files),
                                      installed, body, reply))

DeleteAnalysis ==
    \E client \in Visitors, id \in AnalysisIds :
        \E removable \in BOOLEAN, committable \in BOOLEAN :
            Served("delete_analysis", client, id, <<>>,
                   delete_analysis(Context(browser[client], db, minted, keygen,
                                           catalog, files),
                                   id, removable, committable))

NextRoute ==
    \/ SettingsPage
    \/ UpdateSettings
    \/ AnalyzeFile
    \/ ValidateApiKeyRoute
    \/ DeleteAnalysis

RouteSpec == InitRoute /\ [][NextRoute]_vars

-----------------------------------------------------------------------------
(* State machine of concurrent GET /settings requests: get_user_settings    *)
(* runs as query, then insert and commit, then the rest of the view         *)

InitSession ==
    /\ installed = OptionalSDKs
    /\ environ = EmptyDict
    /\ CoreInit
    /\ VaultInit
    /\ RouteInit

\* A worker takes a request: get_or_create_session_id and the query
BeginSettingsPage ==
    \E w \in Workers, client \in Clients, selected \in SelectedProviders :
        LET c == get_or_create_session_id(
                     Context(browser[client], db, minted, keygen, catalog,
                             files))
            found == QueryFirst(db.settings, c.cookie)
        IN  /\ pending[w] = Idle
            /\ c.minted <= MaxSessions
            /\ minted' = c.minted
            /\ pending' = [pending EXCEPT ![w] =
                              [pc |-> IF found # 0 THEN "respond" ELSE "insert",
                               client |-> client, cookie |-> c.cookie,
                               fresh |-> browser[client] = None,
                               selected |-> selected, out |-> Return(found)]]
            /\ UNCHANGED <<installed, environ, coreVars, vaultVars, db, browser, catalog, files>>

\* `if not settings:` add the default row and commit
InsertSettings ==
    \E w \in Workers :
        LET added == CommitNewSettings(db.settings, pending[w].cookie) IN
        /\ pending[w].pc = "insert"
        /\ db' = IF added.tag = "return"
                 THEN [db EXCEPT !.settings = added.value] ELSE db
        /\ pending' = [pending EXCEPT ![w].pc = "respond",
                                      ![w].out = IF added.tag = "return"
                                                 THEN Return(Len(added.value))
                                                 ELSE added]
        /\ UNCHANGED <<installed, environ, coreVars, vaultVars, browser, minted, catalog, files>>

\* The rest of settings_page and the response; a session changed by the
\* request is written back as the cookie
RespondSettingsPage ==
    \E w \in Workers :
        LET req == pending[w]
            ctx == Context(req.cookie, db, minted, keygen, catalog, files)
            done == IF req.out.tag = "raise"
                    THEN Outcome(ctx, <<>>, InternalServerError(req.out.exc),
                                 FALSE, EmptyDict, NoProvider)
                    ELSE settings_page_render(ctx, environ, req.out.value,
                                              req.selected)
        IN  /\ req.pc = "respond"
            /\ done.ctx.keygen <= MaxKeygen
            /\ keygen' = done.ctx.keygen
            /\ browser' = IF req.fresh
                          THEN [browser EXCEPT ![req.client] = req.cookie]
                          ELSE browser
            /\ pending' = [pending EXCEPT ![w] = Idle]
            /\ sent' = done.sent
            /\ last' = RouteHandled("settings_page", req.client, req.selected,
                                    <<>>, done)
            /\ UNCHANGED <<installed, environ, provider, stored, origin, vault, db, minted, catalog, files>>

NextSession ==
    \/ BeginSettingsPage
    \/ InsertSettings
    \/ RespondSettingsPage

SessionSpec == InitSession /\ [][NextSession]_vars

-----------------------------------------------------------------------------
(* State machine of the credential vault *)

InitVault ==
    /\ installed = OptionalSDKs
    /\ environ \in VaultEnvironments
    /\ CoreInit
    /\ VaultInit
    /\ RouteInit

\* settings.api_keys = encrypt_api_keys(api_keys): the blob is stored when
\* the call returns
StoreApiKeys ==
    \E d \in KeyDicts :
        LET r == encrypt_api_keys(d, environ, GeneratedKey(keygen + 1)) IN
        /\ d = EmptyDict \/ keygen < MaxKeygen
        /\ keygen' = IF d = EmptyDict THEN keygen ELSE keygen + 1
        /\ stored' = IF r.out.tag = "return" THEN r.out.value ELSE stored
        /\ origin' = IF r.out.tag = "return"
                     THEN [mapping |-> d, key |-> r.key, same_process |-> TRUE]
                     ELSE origin
        /\ vault' = [op |-> "encrypt", mapping |-> d, blob |-> None,
                     key |-> r.key, out |-> r.out]
        /\ UNCHANGED <<environ, coreVars, routeVars>>

\* decrypt_api_keys(blob) on the stored blob or on a foreign one
DecryptApiKeys ==
    \E b \in {stored} \cup ForeignBlobs :
        LET r == decrypt_api_keys(b, environ, GeneratedKey(keygen + 1)) IN
        /\ ~Truthy(b) \/ keygen < MaxKeygen
        /\ keygen' = IF Truthy(b) THEN keygen + 1 ELSE keygen
        /\ vault' = [op |-> "decrypt", mapping |-> EmptyDict, blob |-> b,
                     key |-> r.key, out |-> r.out]
        /\ UNCHANGED <<environ, stored, origin, coreVars, routeVars>>

\* The process is restarted, possibly with another ENCRYPTION_KEY setting;
\* the stored blob lives in the database and survives.
Restart ==
    /\ environ' \in VaultEnvironments
    /\ origin' = [origin EXCEPT !.same_process = FALSE]
    /\ vault' = VaultIdle
    /\ UNCHANGED <<keygen, stored, coreVars, routeVars>>

NextVault ==
    \/ StoreApiKeys
    \/ DecryptApiKeys
    \/ Restart

VaultSpec == InitVault /\ [][NextVault]_vars

-----------------------------------------------------------------------------
(* Claims about the factory and the adapters (Spec) *)

Created == last.op = "create_ai_provider"

\* C1: for every backend identifier that is a key of the provider catalog,
\* create_ai_provider succeeds and returns an adapter that exposes the three
\* operations.
C1_FactoryCoversCatalog ==
    (Created /\ last.arg[1] \in DOMAIN get_available_providers)
        => /\ last.out.tag = "return"
           /\ provider = last.out.value
           /\ provider.class \in AdapterClasses

\* C2: for every backend identifier that is not in the provider catalog,
\* create_ai_provider fails with the unsupported-provider error (ValueError
\* "Unsupported AI provider: <id>") and no adapter is constructed.
C2_UnknownProviderRejected ==
    (Created /\ last.arg[1] \notin DOMAIN get_available_providers)
        => /\ last.out.tag = "raise"
           /\ last.out.exc.type = "ValueError"
           /\ last.out.exc.msg = "Unsupported AI provider: " \o last.arg[1]
           /\ provider = NoProvider

C2_Witness ==
    /\ Created
    /\ last.arg[1] = "not-a-real-backend"
    /\ last.out.tag = "raise"
    /\ provider = NoProvider

\* An analysis operation ran on an adapter or on the legacy wrapper
Analysed == last.op \in Operations \cup LegacyOperations

\* The reply had status 200 and a content text that is not valid JSON
NonJsonReply ==
    /\ last.reply.kind = "response"
    /\ last.reply.status = 200
    /\ last.reply.shape = "chat"
    /\ last.reply.content \in NonJsonTexts

\* C7: a transport failure during an analysis operation surfaces as a typed
\* transport error (not the generic Exception) that carries the status and
\* the response body as separate fields, and the call is not retried.
C7_TypedTransportError ==
    (last.op \in Operations /\ TransportFailure(last.reply))
        => /\ last.out.tag = "raise"
           /\ last.out.exc.type # "Exception"
           /\ last.reply.kind = "response"
                => /\ {"status_code", "body"} \subseteq DOMAIN last.out.exc.attrs
                   /\ last.out.exc.attrs.status_code = last.reply.status
                   /\ last.out.exc.attrs.body = last.reply.text
           /\ Len(sent) = 1

\* C8: on every adapter other than the generic HTTP adapter, the legacy
\* wrapper included, a reply whose text is not valid JSON makes the operation
\* fail with a typed decode error that carries the raw reply text; never the
\* generic Exception, never a substituted result.
C8_MalformedResponseTyped ==
    (Analysed /\ last.arg[1] # "HTTPProvider" /\ NonJsonReply)
        => /\ last.out.tag = "raise"
           /\ last.out.exc.type # "Exception"
           /\ "doc" \in DOMAIN last.out.exc.attrs
           /\ last.out.exc.attrs.doc = last.reply.content

\* C9: on the generic HTTP adapter a status-200 reply whose content is not
\* valid JSON does not fail: the operation returns
\* {error: "Invalid JSON response", content: <the raw reply text>}.
C9_HTTPDegradedResult ==
    (last.op \in Operations /\ last.arg[1] = "HTTPProvider" /\ NonJsonReply)
        => /\ last.out.tag = "return"
           /\ last.out.value = [error |-> "Invalid JSON response",
                                content |-> last.reply.content]

C9_Witness ==
    /\ last.op = "generate_test_cases"
    /\ last.arg[1] = "HTTPProvider"
    /\ NonJsonReply
    /\ last.reply.content = ProseText
    /\ last.out.tag = "return"

\* C10: every invocation of one of the three operations issues exactly one
\* outbound call, whether it succeeds or fails; a failed call is not retried
\* and surfaces to the caller as a raised exception.
C10_ExactlyOneOutboundCall ==
    Analysed
        => /\ Len(sent) = 1
           /\ TransportFailure(last.reply) => last.out.tag = "raise"

C10_Witness ==
    /\ last.op = "analyze_code_quality"
    /\ last.arg[1] = "OpenAIProvider"
    /\ TransportFailure(last.reply)
    /\ last.out.tag = "raise"
    /\ Len(sent) = 1

\* C11: for every adapter, the outbound request of analyze_code_quality and
\* of get_code_suggestions carries temperature 0.3 and the outbound request
\* of generate_test_cases carries temperature 0.4.
C11_TemperaturePerOperation ==
    (last.op \in Operations /\ sent # <<>>)
        => /\ last.op \in {"analyze_code_quality", "get_code_suggestions"}
                => sent[1].temperature = "0.3"
           /\ last.op = "generate_test_cases" => sent[1].temperature = "0.4"

\* The 0-100 scale of quality_score and of the numeric metrics
InRange(n) == n >= 0 /\ n <= 100

\* C12: every quality report returned by analyze_code_quality has
\* quality_score in [0,100] and maintainability, readability and security
\* each in [0,100]; an out-of-range reply is rejected, never returned.
C12_QualityReportInRange ==
    (last.op = "analyze_code_quality"
        /\ last.out.tag = "return"
        /\ "quality_score" \in DOMAIN last.out.value)
        => /\ InRange(last.out.value.quality_score)
           /\ \A m \in {"maintainability", "readability", "security"} :
                  InRange(last.out.value.metrics[m])

\* The credential an outbound request carries: the bearer token of the
\* Authorization header, or the api_key the SDK client was built with
CarriesCredential(req, api_key) ==
    IF req.via = "requests.post"
    THEN /\ "Authorization" \in DOMAIN req.headers
         /\ req.headers["Authorization"] = "Bearer " \o api_key
    ELSE req.api_key = api_key

\* The request's body has the backend's shape: a contents value for the
\* generative-content API, a messages array ending in the user turn otherwise
BackendShape(req) ==
    IF req.via = "genai.models.generate_content"
    THEN req.contents # None /\ req.messages = <<>>
    ELSE /\ req.messages # <<>>
         /\ req.messages[Len(req.messages)].role = "user"

\* C19: every outbound request of every adapter carries the credential as
\* Authorization: Bearer <credential> (or the SDK-native equivalent), the
\* model given at construction unchanged, and a messages/contents array in
\* the backend's shape; extra headers of the generic HTTP adapter never
\* replace the Authorization header derived from the credential.
C19_RequestCarriesCredential ==
    (last.op \in Operations /\ sent # <<>>)
        => /\ CarriesCredential(sent[1], provider.api_key)
           /\ sent[1].model = provider.model
           /\ BackendShape(sent[1])

\* C20: constructing an adapter through create_ai_provider performs no
\* outbound call; an outbound call exists only once one of the three
\* operations has been invoked.
C20_ConstructionIsOffline ==
    /\ Created => sent = <<>>
    /\ sent # <<>> => Analysed

C20_Witness ==
    /\ Created
    /\ last.out.tag = "return"
    /\ provider.class = "OpenAIProvider"
    /\ provider.client = "OpenAI"
    /\ sent = <<>>

\* C23: create_ai_provider does not check the model against the backend's
\* model set: for every catalog backend it succeeds for any model string,
\* and the adapter sends that string unchanged in its outbound calls.
C23_ModelNotValidated ==
    /\ (Created /\ last.arg[1] \in DOMAIN AI_PROVIDERS)
          => /\ last.out.tag = "return"
             /\ last.out.value.model = last.arg[3]
    /\ last.op \in Operations
          => \A i \in 1..Len(sent) : sent[i].model = provider.model

-----------------------------------------------------------------------------
(* Claims about language detection (LangSpec) *)

Detected == last.op \in {"detect_language", "openai_service.detect_language"}

\* The filename's extension, compared case-insensitively, is e: the last path
\* component has a dot that is preceded by a character other than a dot, and
\* e is the lower-cased text from its last dot to the end.
HasExtension(filename, e) ==
    \E i \in 1..Len(filename) :
        /\ filename[i] = "."
        /\ \A j \in (i + 1)..Len(filename) : filename[j] \notin {".", "/"}
        /\ \E k \in 1..(i - 1) :
              /\ filename[k] # "."
              /\ \A j \in k..i : filename[j] # "/"
        /\ Str(lower(SubSeq(filename, i, Len(filename)))) = e

\* C13: when the filename's extension (compared case-insensitively) is in the
\* extension table the result is the table's language whatever the content;
\* with an unmatched or missing extension and empty content it is 'text'.
C13_ExtensionDecides ==
    Detected
        => /\ \A e \in DOMAIN extension_map :
                HasExtension(last.arg[1], e)
                    => last.out = Return(extension_map[e])
           /\ ((\A e \in DOMAIN extension_map : ~HasExtension(last.arg[1], e))
                /\ last.arg[2] = <<>>)
                    => last.out = Return("text")

C13_Witness ==
    /\ last.op = "detect_language"
    /\ Str(last.arg[1]) = "SAMPLE.PY"
    /\ Str(last.arg[2]) = "function f() { var x }"
    /\ last.out = Return("python")

\* C14: the content heuristics apply only when no table extension matched and
\* the content is non-empty; they are tried in the order python ('def ' and
\* 'import '), javascript ('function ' and ('var ' or 'let ')), java ('public
\* class ' and 'public static void main'); the first match is the result and
\* without a match the result stays 'text'.
C14_ContentFallbackOrder ==
    (last.op = "detect_language"
        /\ \A e \in DOMAIN extension_map : ~HasExtension(last.arg[1], e))
        => LET c == last.arg[2]
               python == Contains(c, Marker_def) /\ Contains(c, Marker_import)
               javascript == /\ Contains(c, Marker_function)
                             /\ Contains(c, Marker_var) \/ Contains(c, Marker_let)
               java == /\ Contains(c, Marker_public_class)
                       /\ Contains(c, Marker_main)
           IN  /\ python => last.out = Return("python")
               /\ (~python /\ javascript) => last.out = Return("javascript")
               /\ (~python /\ ~javascript /\ java) => last.out = Return("java")
               /\ (~python /\ ~javascript /\ ~java) => last.out = Return("text")

C14_Witness ==
    /\ last.op = "detect_language"
    /\ Str(last.arg[1]) = "notes.txt"
    /\ Str(last.arg[2]) = "import os function f() { var x } def g()"
    /\ last.out = Return("python")

-----------------------------------------------------------------------------
(* Claims about the credential validator (ProbeSpec) *)

\* C6: validate_api_key never raises: every failure of the probe call
\* (non-success status, connection error, SDK exception) gives False, and it
\* returns True only when one probe call completed without error.
C6_ValidateNeverRaises ==
    last.op = "validate_api_key"
        => /\ last.out.tag = "return"
           /\ last.out.value \in BOOLEAN
           /\ TransportFailure(last.reply) => last.out.value = FALSE
           /\ last.out.value = TRUE
                => Len(sent) = 1 /\ ~TransportFailure(last.reply)

C6_Witness ==
    /\ last.op = "validate_api_key"
    /\ last.arg = <<"mistral", "obviously-invalid-key">>
    /\ last.reply.status = 401
    /\ last.out = Return(FALSE)

-----------------------------------------------------------------------------
(* Claims about the credential vault (VaultSpec) *)

\* The stored blob was just handed to decrypt_api_keys
DecryptedStored == vault.op = "decrypt" /\ vault.blob = stored

\* C3: decrypt_api_keys(encrypt_api_keys(m)) equals m for every credential
\* mapping m when both calls use the same encryption key.
C3_VaultRoundTrip ==
    (DecryptedStored /\ vault.key = origin.key)
        => vault.out = Return(origin.mapping)

C3_Witness ==
    /\ DecryptedStored
    /\ vault.key = origin.key
    /\ origin.mapping = [OPENAI_API_KEY |-> "sk-test"]
    /\ vault.out = Return(origin.mapping)

\* C4: with ENCRYPTION_KEY unset, one key per process start serves every
\* encrypt and decrypt call, so a blob encrypted in this process decrypts to
\* its mapping later in the same process.
C4_ProcessKeyStable ==
    (DecryptedStored /\ origin.same_process
        /\ "ENCRYPTION_KEY" \notin DOMAIN environ)
        => vault.out = Return(origin.mapping)

\* No encrypt call under `key` produced the blob (or there is no blob)
Undecryptable(blob, key) ==
    \/ ~Truthy(blob)
    \/ ~ValidFernetKey(key)
    \/ blob \notin {Fernet_encrypt(key, json_dumps(d)) : d \in KeyDicts}

\* C5: decrypt_api_keys never raises; for a blob that is absent, empty,
\* sealed under another key or otherwise not decodable it returns {}.
C5_DecryptNeverRaises ==
    vault.op = "decrypt"
        => /\ vault.out.tag = "return"
           /\ Undecryptable(vault.blob, vault.key) => vault.out.value = EmptyDict

C5_Witness ==
    /\ vault.op = "decrypt"
    /\ vault.blob = Fernet_encrypt("KEY_B", json_dumps([OPENAI_API_KEY |-> "sk-test"]))
    /\ vault.key = "KEY_A"
    /\ vault.out = Return(EmptyDict)

-----------------------------------------------------------------------------
(* Claims about the views (RouteSpec) *)

\* C15: validate_api_key issues at most one probe call and mutates no
\* persisted state: a request to /validate_api_key leaves every UserSettings,
\* CodeAnalysis and AnalysisMetrics record as it was.
C15_ValidateMutatesNothing ==
    [][last'.op = "validate_api_key_route" => (db' = db /\ Len(sent') <= 1)]_vars

C15_Witness ==
    /\ last.op = "validate_api_key_route"
    /\ last.out = Jsonify([valid |-> TRUE])
    /\ Len(sent) = 1
    /\ Len(db.settings) = 1
    /\ db.metrics # <<>>

\* Keys a blob may have been sealed under
VaultKeys == {"KEY_A", "KEY_B"} \cup {GeneratedKey(n) : n \in 1..(MaxKeygen + 1)}

\* The credential mapping a blob was made from
Sealed(blob) ==
    CHOOSE d \in KeyDicts :
        \E k \in VaultKeys : Fernet_encrypt(k, json_dumps(d)) = blob

\* The settings row of the session the last request belonged to
SessionRow == db.settings[QueryFirst(db.settings, last.session_id)]

\* C16: requests share only the vault's encryption key, which has one value
\* for every encrypt and decrypt call of the process, so the blob a session
\* stored in one request is decrypted to the same mapping by a later request.
C16_SharedKeyStable ==
    (last.op = "analyze_file"
        /\ last.decrypted
        /\ Truthy(SessionRow.api_keys))
        => last.api_keys = Sealed(SessionRow.api_keys)

\* No key the environment provides opens the blob
Unreadable(blob, env) ==
    \/ "ENCRYPTION_KEY" \notin DOMAIN env
    \/ Undecryptable(blob, env["ENCRYPTION_KEY"])

\* C17: when the selected backend has a credential neither in the session's
\* decrypted mapping nor in the environment (under the backend's slot name),
\* analyze_file constructs no adapter, issues no outbound call, leaves the
\* analysis and its metrics unchanged and redirects to the settings page; a
\* blob that cannot be decrypted counts as not configured.
C17_MissingCredentialRedirects ==
    [][(last'.op = "analyze_file" /\ last'.arg[2] \in DOMAIN db.analyses)
        => LET row == db'.settings[QueryFirst(db'.settings, last'.session_id)]
               catalogued == row.ai_provider \in DOMAIN get_available_providers
               slot == get_available_providers[row.ai_provider].api_key_env
               to_settings == /\ last'.adapter = NoProvider
                              /\ sent' = <<>>
                              /\ db'.analyses = db.analyses
                              /\ db'.metrics = db.metrics
                              /\ last'.out.kind = "redirect"
                              /\ last'.out.to = "settings_page"
           IN  /\ (last'.decrypted /\ catalogued
                    /\ ~Truthy(Get(last'.api_keys, slot, None))
                    /\ ~Truthy(Get(environ, slot, None)))
                      => to_settings
               /\ (catalogued /\ ~Truthy(Get(environ, slot, None))
                    /\ Unreadable(row.api_keys, environ))
                      => to_settings]_vars

C17_Witness ==
    /\ last.op = "analyze_file"
    /\ last.arg[2] \in DOMAIN db.analyses
    /\ Truthy(SessionRow.api_keys)
    /\ SessionRow.ai_provider = "openai"
    /\ last.api_keys = EmptyDict
    /\ last.out.kind = "redirect"
    /\ last.out.to = "settings_page"
    /\ sent = <<>>

\* C21: the provider catalog is read-only after process start: whatever the
\* views and the core operations they call have done, every provider
\* descriptor and its model mapping are as the module defined them.
C21_CatalogReadOnly == catalog = AI_PROVIDERS

C21_Witness ==
    /\ last.op = "settings_page"
    /\ last.arg[2] = "anthropic"
    /\ last.out.kind = "render"
    /\ last.out.context.settings.ai_provider = "anthropic"
    /\ SessionRow.ai_provider = "together"
    /\ db.metrics # <<>>

\* C22: every provider descriptor has at least one model, so GET /settings
\* with ?provider=<id> renders, for every catalog backend, the settings with
\* that backend and its first model selected.
C22_DefaultModelDefined ==
    /\ \A p \in DOMAIN catalog : catalog[p].models # <<>>
    /\ (last.op = "settings_page" /\ last.arg[2] \in DOMAIN catalog)
          => /\ last.out.kind = "render"
             /\ last.out.context.settings
                   = [ai_provider |-> last.arg[2],
                      ai_model |-> catalog[last.arg[2]].models[1]]

C22_Witness ==
    /\ last.op = "settings_page"
    /\ last.arg[2] = "huggingface"
    /\ last.out.kind = "render"
    /\ last.out.context.settings.ai_model = "meta-llama/Llama-2-70b-chat-hf"
    /\ SessionRow.ai_provider = "openai"

\* C24: after any sequence of settings updates and settings page visits the
\* backend identifier stored in every UserSettings record resolves in the
\* provider catalog, so analyze_file never looks up an unknown identifier
\* that came from stored settings.
C24_StoredBackendResolves ==
    /\ \A i \in 1..Len(db.settings) :
          db.settings[i].ai_provider \in DOMAIN catalog
    /\ last.op = "analyze_file"
          => ~(last.out.kind = "redirect"
                 /\ last.out.flash
                       = <<"error", "Error during analysis: 'not-a-real-backend'">>)

\* The credential mapping a stored blob holds; none for an absent blob
StoredSecrets(blob) == IF Truthy(blob) THEN Sealed(blob) ELSE EmptyDict

\* C25: update_settings merges credentials: after a successful update every
\* slot that had a stored secret and for which the form has no value or only
\* whitespace still maps to its previous secret, and every slot with a
\* non-blank form value maps to that value stripped.
C25_UpdateMergesCredentials ==
    [][(last'.op = "update_settings" /\ last'.out.flash[1] = "success")
        => LET sid == last'.session_id
               was == QueryFirst(db.settings, sid)
               before == IF was = 0 THEN EmptyDict
                         ELSE StoredSecrets(db.settings[was].api_keys)
               after == StoredSecrets(
                            db'.settings[QueryFirst(db'.settings, sid)].api_keys)
               form == last'.arg[2]
               blank(f) == \/ ~Truthy(Get(form, f, None))
                           \/ ~Truthy(strip(form[f]))
           IN  \A f \in CredentialSlots :
                  /\ (f \in DOMAIN before /\ blank(f))
                        => (f \in DOMAIN after /\ after[f] = before[f])
                  /\ ~blank(f)
                        => (f \in DOMAIN after /\ after[f] = strip(form[f]))]_vars

\* C26: analyze_file invokes analyze_code_quality, generate_test_cases and
\* get_code_suggestions in this order, each at most once; when one of them
\* raises, the later ones are not invoked, so a request issues at most three
\* outbound calls, and a completed analysis issued exactly three.
C26_OperationsInOrder ==
    last.op = "analyze_file"
        => LET analysis == db.analyses[last.arg[2]]
               order == << "analyze_code_quality", "generate_test_cases",
                           "get_code_suggestions" >>
               call(i) == Invoke(last.adapter, order[i], analysis.content,
                                 analysis.language, last.reply[i])
           IN  /\ Len(sent) <= 3
               /\ \A i \in 1..Len(sent) :
                     /\ call(i).sent = << sent[i] >>
                     /\ call(i).out.tag = "raise" => i = Len(sent)
               /\ last.out.to = "view_analysis" => Len(sent) = 3

C26_Witness ==
    /\ last.op = "analyze_file"
    /\ Len(sent) = 2
    /\ last.reply[1].content = QualityJson
    /\ last.reply[2].status = 401
    /\ last.out.to = "dashboard"
    /\ last.adapter.class = "AnthropicProvider"

\* Equality of two tables whose columns may hold None or a value
SameRows(before, after) == ToString(before) = ToString(after)

\* C27: a failed analysis commits no partial state: when an adapter
\* operation or the processing of the results fails, the CodeAnalysis
\* records and the AnalysisMetrics rows are as before the request; they
\* change only together with the success response, after three calls.
C27_FailedAnalysisCommitsNothing ==
    [][last'.op = "analyze_file"
        => LET changed == \/ ~SameRows(db.analyses, db'.analyses)
                          \/ ~SameRows(db.metrics, db'.metrics)
               succeeded == last'.out.to = "view_analysis"
           IN  /\ ~succeeded => ~changed
               /\ changed => (succeeded /\ Len(sent') = 3)
               /\ succeeded
                     => /\ ~IsNone(db'.analyses[last'.arg[2]].analysis_result)
                        /\ ~IsNone(db'.analyses[last'.arg[2]].test_suggestions)]_vars

C27_Witness ==
    /\ last.op = "analyze_file"
    /\ last.out.flash
         = <<"error",
             "Error during analysis: 'NoneType' object has no attribute 'items'">>
    /\ Len(sent) = 3
    /\ IsNone(db.analyses[1].analysis_result)
    /\ db.metrics = <<>>

\* C28: after any sequence of successful analyze requests for one analysis,
\* its AnalysisMetrics rows hold at most one row per metric name, and they
\* are the metrics of the quality report stored last.
C28_MetricsReflectLatestReport ==
    \A id \in DOMAIN db.analyses :
        LET rows == {i \in 1..Len(db.metrics) : db.metrics[i].analysis_id = id}
            report == db.analyses[id].analysis_result.json.quality_analysis
            metrics == Get(report, "metrics", EmptyDict)
        IN  /\ \A i, j \in rows :
                  db.metrics[i].metric_name = db.metrics[j].metric_name => i = j
            /\ ~IsNone(db.analyses[id].analysis_result)
                  => /\ \A i \in rows :
                          /\ db.metrics[i].metric_name \in DOMAIN metrics
                          /\ db.metrics[i].metric_value
                                = ToString(metrics[db.metrics[i].metric_name])
                     /\ \A name \in DOMAIN metrics :
                          \E i \in rows : db.metrics[i].metric_name = name

\* C29: in every reachable state each AnalysisMetrics row references an
\* existing CodeAnalysis record: a successful delete_analysis removes the
\* uploaded file, all metrics rows of the analysis and the analysis record
\* together and touches no other row, and when it fails the records and the
\* metrics rows are as before.
C29_MetricsReferenceAnalysis ==
    /\ [](\A i \in 1..Len(db.metrics) :
             db.metrics[i].analysis_id \in DOMAIN db.analyses)
    /\ [][(last'.op = "delete_analysis" /\ last'.arg[2] \in DOMAIN db.analyses)
            => LET id == last'.arg[2]
                   others == SelectSeq(db.metrics, LAMBDA m : m.analysis_id # id)
               IN  IF last'.out.flash[1] = "success"
                   THEN /\ id \notin DOMAIN db'.analyses
                        /\ db'.metrics = others
                        /\ db.analyses[id].file_path \notin files'
                        /\ \A j \in DOMAIN db.analyses \ {id} :
                              /\ j \in DOMAIN db'.analyses
                              /\ SameRows(db.analyses[j], db'.analyses[j])
                   ELSE /\ SameRows(db.analyses, db'.analyses)
                        /\ SameRows(db.metrics, db'.metrics)]_vars

C29_Witness ==
    /\ last.op = "delete_analysis"
    /\ last.arg[2] = 1
    /\ last.out.flash[1] = "success"
    /\ db.analyses = <<>>
    /\ db.metrics = <<>>
    /\ files = {}
    /\ Len(db.settings) = 1

\* C30: the /validate_api_key route answers valid=false with the missing
\* field error and without a probe when the provider or the credential is
\* absent or empty, and validate_api_key answers false without an outbound
\* call for a provider identifier that is not in the catalog.
C30_NoProbeWithoutTarget ==
    (last.op = "validate_api_key_route" /\ last.arg[2].kind = "json")
        => LET data == last.arg[2].data
               provider_name == Get(data, "provider", None)
               api_key == Get(data, "api_key", None)
           IN  /\ (~Truthy(provider_name) \/ ~Truthy(api_key))
                     => /\ sent = <<>>
                        /\ last.out
                             = Jsonify([valid |-> FALSE,
                                        error |-> "Missing provider or API key"])
               /\ (Truthy(provider_name) /\ Truthy(api_key)
                      /\ provider_name \notin DOMAIN catalog)
                     => /\ sent = <<>>
                        /\ last.out = Jsonify([valid |-> FALSE])

C30_Witness ==
    /\ last.op = "validate_api_key_route"
    /\ last.arg[2] = Body("json", [provider |-> "OpenAI", api_key |-> "sk-test"])
    /\ last.out = Jsonify([valid |-> FALSE])
    /\ sent = <<>>
    /\ Len(db.settings) = 1

-----------------------------------------------------------------------------
(* Claims about concurrent requests (SessionSpec) *)

\* C18: each session has exactly one UserSettings row: it is created on the
\* session's first settings access with provider 'openai' and model
\* 'gpt-4o', later accesses get that row, and under any interleaving of
\* concurrent requests no second row with the same session_id exists and no
\* request fails because of one.
C18_OneRecordPerSession ==
    /\ \A i, j \in 1..Len(db.settings) :
          db.settings[i].session_id = db.settings[j].session_id => i = j
    /\ \A i \in 1..Len(db.settings) :
          /\ db.settings[i].ai_provider = "openai"
          /\ db.settings[i].ai_model = "gpt-4o"
    /\ \A c \in Clients :
          browser[c] # None => QueryFirst(db.settings, browser[c]) # 0
    /\ \A w \in Workers :
          /\ pending[w].out.tag = "return"
          /\ pending[w].pc = "respond"
                => pending[w].out.value
                      = QueryFirst(db.settings, pending[w].cookie)
    /\ last.op = "settings_page" => last.out.kind = "render"

C18_Witness ==
    /\ pending[1].pc = "respond"
    /\ pending[2].pc = "respond"
    /\ pending[1].client = pending[2].client
    /\ pending[1].cookie = pending[2].cookie
    /\ ~pending[1].fresh
    /\ Len(db.settings) = 2

====
